---------------------------- MODULE Spec2Model ----------------------------
(***************************************************************************)
(* Model of the cantrips scripts: the bulk renamer (rerename.py), the      *)
(* audiobook splitter (audiobook-chapterise.py: chapter planning, file     *)
(* names, extraction loop), sqlite3-vacuum.py, movies-group-by-year.py,    *)
(* tv-subtitles.py, rust-clean.py and hevc-convert.py.                     *)
(*                                                                         *)
(* A file name is a sequence of one-character strings.  A folder is a set  *)
(* of entries [name, data]; data identifies the content of the entry (the  *)
(* name it had when the run started, or "alien" for an entry made by       *)
(* another process).                                                       *)
(***************************************************************************)
EXTENDS Integers, Sequences, FiniteSets, TLC

VARIABLES
    pc,         \* rerename: position inside Renamer.rename() ("off": not run)
    config,     \* rerename: RenamerConfiguration
    folder,     \* rerename: the entries of the folder
    folder0,    \* rerename: the folder when the run started (history)
    paths,      \* rerename: result of Renamer.list()
    renames,    \* rerename: the plan, result of Renamer.calculate()
    idx,        \* rerename: position of execute()'s loop in the plan (1-based)
    error,      \* rerename: the RenameError raised, or NoError
    status,     \* rerename: exit status of the process, -1 while running
    log,        \* rerename: history of system calls and check() outcomes
    alien,      \* rerename: number of entries created by another process
    apc,        \* audiobook: position inside main() ("off": not run)
    chapters,   \* audiobook: len(splitinator.chapters)
    aindex,     \* audiobook: index of the loop over the chapters (0-based)
    clips,      \* audiobook: state of each clip's file under its final name
    attempted,  \* audiobook: the clips ffmpeg was started for (history)
    progress,   \* audiobook: the ordinals of the progress lines printed
    outdir,     \* audiobook: the output folder: absent, present or created
    cwd,        \* audiobook: working directory: "start" or "out"
    astatus,    \* audiobook: exit status of the process, -1 while running
    cleaned,    \* clean_filename: the input and the results of applying it
    padcount,   \* _calculate_padding: max_value, 0 when not run
    padding,    \* _calculate_padding: the width returned, 0 before the call
    fpc,        \* Splitinator: "off", "init", "loop" or "returned"
    titles,     \* Splitinator.chapters: the chapters' titles, in order
    findex,     \* filenames(): chapters already named
    filenames,  \* filenames(): the list being built
    bpc,        \* sqlite3-vacuum: "off", "idle", or the step of main()'s loop
    brun,       \* sqlite3-vacuum: runs of the program started so far
    bdb,        \* sqlite3-vacuum: the database main() is at, 0 between runs
    bfiles,     \* sqlite3-vacuum: per database, its '.old' and '.older' file
    mpc,        \* movies-group-by-year: "off" or the step of the two runs
    mroot,      \* movies-group-by-year: the entries of the root folder
    mroot0,     \* movies-group-by-year: the entries before the first run
    mqueue,     \* movies-group-by-year: names the running loop has yet to visit
    msub,       \* from_subfolders: names the inner loop has yet to move
    mstatus,    \* movies-group-by-year: exit status of the last run, -1 if none
    tpc,        \* tv-subtitles: "off" or the step of main()
    tcount,     \* tv-subtitles: episodes found in the series folder
    tsrt,       \* tv-subtitles: per episode, what is at '<base name>.srt'
    tsrt0,      \* tv-subtitles: tsrt when the program started
    tcands,     \* tv-subtitles: per episode, the files under Subs with its key
    tindex,     \* tv-subtitles: episodes main()'s loop has dealt with
    tcopied,    \* tv-subtitles: per episode, what copy_subtitle() copied
    tstatus,    \* tv-subtitles: exit status, -1 while running
    rpc,        \* rust-clean: "off" or the step of main()
    rroot,      \* rust-clean: the name of the root folder
    rdirs,      \* rust-clean: the folders under the root, as paths from it
    rdirs0,     \* rust-clean: rdirs when the program started
    rtoml,      \* rust-clean: the folders that hold a file Cargo.toml
    rstack,     \* rust-clean: the folders walk() has yet to visit
    rcleaned,   \* rust-clean: the folders 'cargo clean' has run in
    rstatus,    \* rust-clean: exit status, -1 while running
    hpc,        \* hevc-convert: position of main() and hevc_convert()
    hvideos,    \* number of videos on the command line
    hindex,     \* videos converted so far
    hvideo,     \* content at each video's path: old, partial, new
    htemp,      \* the output file in the temporary folder
    hencoded,   \* videos whose ffmpeg run has succeeded
    hstatus,    \* exit status of hevc-convert, -1 while running
    ppc,        \* Chapteriser: position of chapterise() and make_parts()
    pduration,  \* self.duration, in whole minutes
    pmeta,      \* the chapters mediainfo.get_chapters() returns
    pnum,       \* num_parts of make_parts()
    pstart,     \* start of make_parts(), a fraction of a minute
    pend,       \* end of make_parts(), a fraction of a minute
    pparts      \* chapters: the list chapterise() builds and returns

renameVars == <<pc, config, folder, folder0, paths, renames, idx, error,
                status, log, alien>>

audioVars == <<apc, chapters, aindex, clips, attempted, progress, outdir,
               cwd, astatus>>

cleanVars == <<cleaned>>

paddingVars == <<padcount, padding>>

nameVars == <<fpc, titles, findex, filenames>>

backupVars == <<bpc, brun, bdb, bfiles>>

movieVars == <<mpc, mroot, mroot0, mqueue, msub, mstatus>>

tvVars == <<tpc, tcount, tsrt, tsrt0, tcands, tindex, tcopied, tstatus>>

rustVars == <<rpc, rroot, rdirs, rdirs0, rtoml, rstack, rcleaned, rstatus>>

hevcVars == <<hpc, hvideos, hindex, hvideo, htemp, hencoded, hstatus>>

partsVars == <<ppc, pduration, pmeta, pnum, pstart, pend, pparts>>

\* what a run of one program leaves alone: the state of the others
notRename ==
    <<movieVars, audioVars, cleanVars, paddingVars, nameVars, backupVars,
      tvVars, rustVars, hevcVars, partsVars>>

notAudio ==
    <<movieVars, renameVars, cleanVars, paddingVars, nameVars,
      backupVars, tvVars, rustVars, hevcVars, partsVars>>

notClean ==
    <<movieVars, renameVars, audioVars, paddingVars, nameVars,
      backupVars, tvVars, rustVars, hevcVars, partsVars>>

notPadding ==
    <<movieVars, renameVars, audioVars, cleanVars, backupVars, tvVars,
      rustVars, hevcVars, partsVars>>

notNames ==
    <<movieVars, renameVars, audioVars, cleanVars, backupVars, tvVars,
      rustVars, hevcVars, partsVars>>

notBackup ==
    <<movieVars, renameVars, audioVars, cleanVars, paddingVars, nameVars,
      tvVars, rustVars, hevcVars, partsVars>>

notMovies ==
    <<renameVars, audioVars, cleanVars, paddingVars, nameVars,
      backupVars, tvVars, rustVars, hevcVars, partsVars>>

notTv ==
    <<renameVars, audioVars, cleanVars, paddingVars, nameVars,
      backupVars, movieVars, rustVars, hevcVars, partsVars>>

notRust ==
    <<renameVars, audioVars, cleanVars, paddingVars, nameVars,
      backupVars, movieVars, tvVars, hevcVars, partsVars>>

notHevc ==
    <<renameVars, audioVars, cleanVars, paddingVars, nameVars,
      backupVars, movieVars, tvVars, rustVars, partsVars>>

notParts ==
    <<renameVars, audioVars, cleanVars, paddingVars, nameVars,
      backupVars, movieVars, tvVars, rustVars, hevcVars>>

vars ==
    <<renameVars, audioVars, cleanVars, paddingVars, nameVars,
      backupVars, movieVars, tvVars, rustVars, hevcVars, partsVars>>

---------------------------------------------------------------------------
(* Bounds of the model *)

\* longest file name in the folder, in characters
MaxNameLen == 3
\* most characters in the names of the folder together, when the run starts
MaxFolderChars == 7
\* most entries another process creates during one run
MaxAlien == 1
\* most chapters of an audio book
MaxChapters == 4
\* longest string given to clean_filename, in characters
MaxCleanLen == 3
\* most chapters of a book whose file names are built
MaxBookChapters == 12
\* longest chapter title
MaxTitleLen == 2
\* databases found under the root given to sqlite3-vacuum
MaxDatabases == 2
\* most runs of sqlite3-vacuum, one after the other
MaxBackupRuns == 3
\* most entries of the root folder given to movies-group-by-year
MaxRootEntries == 3
\* most episodes in the series folder given to tv-subtitles
MaxEpisodes == 2
\* most folders under the root given to rust-clean
MaxDirs == 4
\* most applications of clean_filename in a row
MaxApply == 2
\* largest chapter count given to _calculate_padding
MaxPadCount == 1000
\* videos named on the command line of hevc-convert
MaxVideos == 4
\* longest media file given to Chapteriser, in minutes
MaxMinutes == 50

---------------------------------------------------------------------------
(* Characters, names and their order *)

Chars == {"a", "b", "."}

\* characters of the names the folder holds when the run starts
NameChars == {"a", "."}

\* code point of a character: str comparison in entries.sort()
Ord(c) ==
    CASE c = " " -> 32 [] c = "." -> 46
      [] c = "0" -> 48 [] c = "1" -> 49 [] c = "2" -> 50 [] c = "3" -> 51
      [] c = "4" -> 52 [] c = "5" -> 53 [] c = "6" -> 54 [] c = "7" -> 55
      [] c = "8" -> 56 [] c = "9" -> 57
      [] c = "C" -> 67 [] c = "a" -> 97 [] c = "b" -> 98 [] c = "e" -> 101
      [] c = "h" -> 104 [] c = "m" -> 109 [] c = "p" -> 112 [] c = "r" -> 114
      [] c = "t" -> 116
      [] OTHER -> 0

Strings(n) == UNION {[1..k -> NameChars] : k \in 0..n}

\* names that always resolve to a directory: folder / '' and folder / '.'
\* are the folder itself, folder / '..' is its parent
SpecialNames == {<<>>, <<".">>, <<".", ".">>}

\* names a folder entry can have
EntryNames == Strings(MaxNameLen) \ SpecialNames

\* s < t as Python compares str (and so PosixPath in one folder)
RECURSIVE StrLess(_, _)
StrLess(s, t) ==
    IF t = <<>> THEN FALSE
    ELSE IF s = <<>> THEN TRUE
    ELSE IF Head(s) # Head(t) THEN Ord(Head(s)) < Ord(Head(t))
    ELSE StrLess(Tail(s), Tail(t))

\* the names of a set in ascending order
RECURSIVE SortNames(_)
SortNames(S) ==
    IF S = {} THEN <<>>
    ELSE LET m == CHOOSE x \in S : \A y \in S \ {x} : StrLess(x, y)
         IN <<m>> \o SortNames(S \ {m})

---------------------------------------------------------------------------
(* pathlib: PurePath.suffix and PurePath.stem *)

\* 1-based position of the last '.' of a name, 0 when it has none
LastDot(name) ==
    LET dots == {i \in 1..Len(name) : name[i] = "."}
    IN IF dots = {} THEN 0 ELSE CHOOSE i \in dots : \A j \in dots : j <= i

\* the suffix starts at the last '.', unless that is the first or the last
\* character of the name
Suffix(name) ==
    LET i == LastDot(name)
    IN IF 1 < i /\ i < Len(name) THEN SubSeq(name, i, Len(name)) ELSE <<>>

Stem(name) ==
    LET i == LastDot(name)
    IN IF 1 < i /\ i < Len(name) THEN SubSeq(name, 1, i - 1) ELSE name

---------------------------------------------------------------------------
(* re: a search expression is a sequence of character classes, each       *)
(* matching one character; a template is a sequence of literal characters *)
(* and references to the whole match.                                     *)

Group0 == "\\g<0>"

NoMatch == <<-1, -1>>

\* re.IGNORECASE folds both sides
Fold(c) ==
    CASE c = "A" -> "a" [] c = "B" -> "b" [] c = "E" -> "e" [] c = "G" -> "g"
      [] c = "N" -> "n" [] OTHER -> c

ClassHas(class, c, ignore_case) ==
    IF ignore_case THEN \E d \in class : Fold(d) = Fold(c) ELSE c \in class

\* the expression matches the haystack at 0-based offset i
MatchAt(search, haystack, i, ignore_case) ==
    /\ i + Len(search) <= Len(haystack)
    /\ \A k \in 1..Len(search) : ClassHas(search[k], haystack[i + k], ignore_case)

\* Pattern.search(): the span of the leftmost match, or NoMatch
Search(search, haystack, ignore_case) ==
    LET starts == {i \in 0..Len(haystack) : MatchAt(search, haystack, i, ignore_case)}
    IN IF starts = {} THEN NoMatch
       ELSE LET i == CHOOSE x \in starts : \A y \in starts : x <= y
            IN <<i, i + Len(search)>>

\* Match.expand(): the template with every reference replaced by the match
RECURSIVE Expand(_, _)
Expand(template, matched) ==
    IF template = <<>> THEN <<>>
    ELSE (IF Head(template) = Group0 THEN matched ELSE <<Head(template)>>)
         \o Expand(Tail(template), matched)

\* s[a:b] of Python, 0-based, half open
Slice(s, a, b) == SubSeq(s, a + 1, b)

---------------------------------------------------------------------------
(* rerename.py: Renamer *)

Rename(old, new, match_start, match_end, replaced) ==
    [old |-> old, new |-> new, match_start |-> match_start,
     match_end |-> match_end, replaced |-> replaced]

NoError == [kind |-> "none", target |-> <<>>, first |-> <<>>, second |-> <<>>]

OverwriteError(new) ==
    [kind |-> "overwrite", target |-> new, first |-> <<>>, second |-> <<>>]

DuplicateError(first, second, new) ==
    [kind |-> "duplicate", target |-> new, first |-> first, second |-> second]

ExistsError(new) ==
    [kind |-> "exists", target |-> new, first |-> <<>>, second |-> <<>>]

\* Path.exists() of folder / name
Exists(dir, name) ==
    name \in SpecialNames \/ \E e \in dir : e.name = name

\* Renamer.list(): the names of the folder, hidden ones skipped unless
\* show_all, sorted
List(dir, show_all) ==
    LET allow_hidden == ~show_all
    IN SortNames({e.name : e \in {x \in dir :
                      ~(allow_hidden /\ Head(x.name) = ".")}})

\* calculate() that keeps the entries whose name does not change
CalculateOneKeepNoOps(name, search, replace, preserve_suffix, ignore_case) ==
    LET haystack == IF preserve_suffix THEN Stem(name) ELSE name
        suffix == IF preserve_suffix THEN Suffix(name) ELSE <<>>
        match == Search(search, haystack, ignore_case)
        replaced == Expand(replace, Slice(haystack, match[1], match[2]))
        new == Slice(haystack, 0, match[1]) \o replaced
               \o Slice(haystack, match[2], Len(haystack)) \o suffix
    IN IF match = NoMatch THEN <<>>
       ELSE <<Rename(name, new, match[1], match[2], replaced)>>

\* calculate() that takes a failed search for an empty match at the start
CalculateOneUnmatched(name, search, replace, preserve_suffix, ignore_case) ==
    LET haystack == IF preserve_suffix THEN Stem(name) ELSE name
        suffix == IF preserve_suffix THEN Suffix(name) ELSE <<>>
        found == Search(search, haystack, ignore_case)
        match == IF found = NoMatch THEN <<0, 0>> ELSE found
        replaced == Expand(replace, Slice(haystack, match[1], match[2]))
        new == Slice(haystack, 0, match[1]) \o replaced
               \o Slice(haystack, match[2], Len(haystack)) \o suffix
    IN IF name = new THEN <<>>
       ELSE <<Rename(name, new, match[1], match[2], replaced)>>

\* calculate() that searches the whole name whatever preserve_suffix says
CalculateOneIgnoreSuffix(name, search, replace, preserve_suffix, ignore_case) ==
    LET match == Search(search, name, ignore_case)
        replaced == Expand(replace, Slice(name, match[1], match[2]))
        new == Slice(name, 0, match[1]) \o replaced
               \o Slice(name, match[2], Len(name))
    IN IF match = NoMatch THEN <<>>
       ELSE IF name = new THEN <<>>
       ELSE <<Rename(name, new, match[1], match[2], replaced)>>

\* one iteration of calculate()'s loop: the Rename of a path, in a sequence
\* of length 0 or 1
CalculateOne(name, search, replace, preserve_suffix, ignore_case) ==
    LET haystack == IF preserve_suffix THEN Stem(name) ELSE name
        suffix == IF preserve_suffix THEN Suffix(name) ELSE <<>>
        match == Search(search, haystack, ignore_case)
        start == match[1]
        end == match[2]
        replaced == Expand(replace, Slice(haystack, start, end))
        new == Slice(haystack, 0, start) \o replaced
               \o Slice(haystack, end, Len(haystack)) \o suffix
    IN IF match = NoMatch THEN <<>>
       ELSE IF name = new THEN <<>>
       ELSE <<Rename(name, new, start, end, replaced)>>

\* Renamer.calculate()
RECURSIVE Calculate(_, _, _, _, _)
Calculate(ps, search, replace, preserve_suffix, ignore_case) ==
    IF ps = <<>> THEN <<>>
    ELSE CalculateOne(Head(ps), search, replace, preserve_suffix, ignore_case)
         \o Calculate(Tail(ps), search, replace, preserve_suffix, ignore_case)

\* check() that records the entry in seen before it looks for a collision
RECURSIVE CheckFromSeenFirst(_, _, _, _)
CheckFromSeenFirst(dir, rs, i, seen) ==
    IF i > Len(rs) THEN NoError
    ELSE LET rename == rs[i]
         IN IF Exists(dir, rename.new) THEN OverwriteError(rename.new)
            ELSE IF \E p \in seen : p[1] = rename.new
            THEN DuplicateError(rename.old, rename.old, rename.new)
            ELSE CheckFromSeenFirst(dir, rs, i + 1,
                                    seen \cup {<<rename.new, rename.old>>})

\* Renamer.check() from entry i on, seen being the set of <<new, old>> of
\* the entries before i: the RenameError raised, or NoError
RECURSIVE CheckFrom(_, _, _, _)
CheckFrom(dir, rs, i, seen) ==
    IF i > Len(rs) THEN NoError
    ELSE LET rename == rs[i]
         IN IF Exists(dir, rename.new) THEN OverwriteError(rename.new)
            ELSE IF \E p \in seen : p[1] = rename.new
            THEN LET first == (CHOOSE p \in seen : p[1] = rename.new)[2]
                 IN DuplicateError(first, rename.old, rename.new)
            ELSE CheckFrom(dir, rs, i + 1, seen \cup {<<rename.new, rename.old>>})

\* check() without its test of existing entries
CheckNoExisting(dir, rs) ==
    LET dup == {i \in 1..Len(rs) : \E j \in 1..(i - 1) : rs[j].new = rs[i].new}
    IN IF dup = {} THEN NoError
       ELSE LET i == CHOOSE x \in dup : \A y \in dup : x <= y
                j == CHOOSE x \in 1..(i - 1) : rs[x].new = rs[i].new
            IN DuplicateError(rs[j].old, rs[i].old, rs[i].new)

\* check() without its test of collisions inside the plan
CheckNoCollisions(dir, rs) ==
    LET hit == {i \in 1..Len(rs) : Exists(dir, rs[i].new)}
    IN IF hit = {} THEN NoError
       ELSE OverwriteError(rs[CHOOSE x \in hit : \A y \in hit : x <= y].new)

\* check() in two passes: every existing entry first, collisions after
CheckTwoPasses(dir, rs) ==
    IF CheckNoCollisions(dir, rs) # NoError THEN CheckNoCollisions(dir, rs)
    ELSE CheckNoExisting(dir, rs)

\* check() that passes over an existing entry which the plan renames away
CheckSkipSources(dir, rs) ==
    CheckFrom({e \in dir : \A i \in 1..Len(rs) : rs[i].old # e.name}, rs, 1, {})

Check(dir, rs) == CheckFrom(dir, rs, 1, {})

\* Path.rename(): the entry takes the new name; an entry that had that
\* name is replaced without notice
PathRename(dir, old, new) ==
    {e \in dir : e.name # old /\ e.name # new}
        \cup {[name |-> new, data |-> e.data] : e \in {x \in dir : x.name = old}}

---------------------------------------------------------------------------
(* The run of rerename: Renamer.rename() as a sequence of steps *)

\* search expressions and templates of the runs explored
SearchChoices == {<<>>, <<{"A"}>>, <<{"."}>>, <<Chars>>}
ReplaceChoices == {<<>>, <<"b">>, <<Group0, "a">>}

Configurations ==
    [dry_run : BOOLEAN, ignore_case : BOOLEAN, preserve_suffix : BOOLEAN,
     replace_template : ReplaceChoices, search_regex : SearchChoices,
     show_all : BOOLEAN]

\* the sets of entry names that extend S by names after those of S, with at
\* most budget characters more
RECURSIVE NameSets(_, _)
NameSets(S, budget) ==
    {S} \cup UNION {NameSets(S \cup {n}, budget - Len(n)) :
                      n \in {m \in EntryNames : /\ Len(m) <= budget
                                                /\ \A x \in S : StrLess(x, m)}}

\* the folders a run can start in: every entry holds its own content
Folders ==
    {{[name |-> n, data |-> n] : n \in S} : S \in NameSets({}, MaxFolderChars)}

\* rerename is not run
RenameOff ==
    /\ pc = "off"
    /\ config = [dry_run |-> TRUE, ignore_case |-> FALSE, preserve_suffix |-> TRUE,
                 replace_template |-> <<>>, search_regex |-> <<>>, show_all |-> FALSE]
    /\ folder = {}
    /\ folder0 = {}
    /\ paths = <<>>
    /\ renames = <<>>
    /\ idx = 0
    /\ error = NoError
    /\ status = -1
    /\ log = <<>>
    /\ alien = 0

\* the audiobook splitter is not run
AudioOff ==
    /\ apc = "off"
    /\ chapters = 0
    /\ aindex = 0
    /\ clips = <<>>
    /\ attempted = {}
    /\ progress = <<>>
    /\ outdir = "absent"
    /\ cwd = "start"
    /\ astatus = -1

\* clean_filename is not applied
CleanOff == cleaned = <<>>

\* _calculate_padding is not called
PaddingOff == padcount = 0 /\ padding = 0

\* no Splitinator builds file names
NamesOff == fpc = "off" /\ titles = <<>> /\ findex = 0 /\ filenames = <<>>

\* sqlite3-vacuum is not run
BackupOff == bpc = "off" /\ brun = 0 /\ bdb = 0 /\ bfiles = <<>>

\* movies-group-by-year is not run
MoviesOff ==
    /\ mpc = "off"
    /\ mroot = {}
    /\ mroot0 = {}
    /\ mqueue = <<>>
    /\ msub = <<>>
    /\ mstatus = -1

\* tv-subtitles is not run
TvOff ==
    /\ tpc = "off"
    /\ tcount = 0
    /\ tsrt = <<>>
    /\ tsrt0 = <<>>
    /\ tcands = <<>>
    /\ tindex = 0
    /\ tcopied = <<>>
    /\ tstatus = -1

\* rust-clean is not run
RustOff ==
    /\ rpc = "off"
    /\ rroot = ""
    /\ rdirs = {}
    /\ rdirs0 = {}
    /\ rtoml = {}
    /\ rstack = <<>>
    /\ rcleaned = {}
    /\ rstatus = -1

\* hevc-convert is not run
HevcOff ==
    /\ hpc = "off"
    /\ hvideos = 0
    /\ hindex = 0
    /\ hvideo = <<>>
    /\ htemp = "absent"
    /\ hencoded = {}
    /\ hstatus = -1

\* Chapteriser is not run
PartsOff ==
    /\ ppc = "off"
    /\ pduration = 0
    /\ pmeta = <<>>
    /\ pnum = 0
    /\ pstart = <<0, 1>>
    /\ pend = <<0, 1>>
    /\ pparts = <<>>

\* Renamer.__init__ and the options of the command line
InitRename ==
    /\ PartsOff
    /\ HevcOff
    /\ RustOff
    /\ TvOff
    /\ AudioOff
    /\ CleanOff
    /\ PaddingOff
    /\ NamesOff
    /\ BackupOff
    /\ MoviesOff
    /\ pc = "list"
    /\ config \in Configurations
    /\ folder \in Folders
    /\ folder0 = folder
    /\ paths = <<>>
    /\ renames = <<>>
    /\ idx = 0
    /\ error = NoError
    /\ status = -1
    /\ log = <<>>
    /\ alien = 0

\* rename(): paths = self.list()
ListFolder ==
    /\ pc = "list"
    /\ paths' = List(folder, config.show_all)
    /\ pc' = "calculate"
    /\ UNCHANGED <<config, folder, folder0, renames, idx, error, status, log, alien>>
    /\ UNCHANGED notRename

\* rename(): renames = self.calculate(...)
CalculateRenames ==
    /\ pc = "calculate"
    /\ renames' = Calculate(paths, config.search_regex, config.replace_template,
                            config.preserve_suffix, config.ignore_case)
    /\ pc' = "check"
    /\ UNCHANGED <<config, folder, folder0, paths, idx, error, status, log, alien>>
    /\ UNCHANGED notRename

\* rename() that reports the RenameError and goes on
CheckRenamesContinue ==
    /\ pc = "check"
    /\ LET e == Check(folder, renames)
       IN /\ pc' = "print"
          /\ error' = e
          /\ log' = Append(log, IF e = NoError THEN "check_ok" ELSE "check_failed")
    /\ UNCHANGED <<config, folder, folder0, paths, renames, idx, status, alien>>
    /\ UNCHANGED notRename

\* rename(): self.check(renames); a RenameError ends the run with
\* SystemExit(2)
CheckRenames ==
    /\ pc = "check"
    /\ LET e == Check(folder, renames)
       IN IF e = NoError
          THEN /\ pc' = "print"
               /\ log' = Append(log, "check_ok")
               /\ UNCHANGED <<error, status>>
          ELSE /\ pc' = "exit"
               /\ error' = e
               /\ status' = 2
               /\ log' = Append(log, "check_failed")
    /\ UNCHANGED <<config, folder, folder0, paths, renames, idx, alien>>
    /\ UNCHANGED notRename

\* rename() that executes whatever dry_run says
PrintRenamesAlwaysExecute ==
    /\ pc = "print"
    /\ pc' = "execute"
    /\ idx' = 1
    /\ UNCHANGED <<config, folder, folder0, paths, renames, error, status, log, alien>>
    /\ UNCHANGED notRename

\* rename(): self.print_renames(renames), then execute() unless dry_run
PrintRenames ==
    /\ pc = "print"
    /\ IF ~config.dry_run
       THEN pc' = "execute" /\ idx' = 1
       ELSE pc' = "summary" /\ UNCHANGED idx
    /\ UNCHANGED <<config, folder, folder0, paths, renames, error, status, log, alien>>
    /\ UNCHANGED notRename

\* execute() without its test that the target does not exist
ExecuteNoRecheck ==
    /\ pc = "execute"
    /\ idx <= Len(renames)
    /\ pc' = "path_rename"
    /\ UNCHANGED <<config, folder, folder0, paths, renames, idx, error, status, log, alien>>
    /\ UNCHANGED notRename

\* execute(): the loop's test that the target does not exist; the
\* RenameError it raises is caught nowhere, so the interpreter exits with 1
ExecuteRecheck ==
    /\ pc = "execute"
    /\ idx <= Len(renames)
    /\ IF Exists(folder, renames[idx].new)
       THEN /\ pc' = "exit"
            /\ error' = ExistsError(renames[idx].new)
            /\ status' = 1
       ELSE /\ pc' = "path_rename"
            /\ UNCHANGED <<error, status>>
    /\ UNCHANGED <<config, folder, folder0, paths, renames, idx, log, alien>>
    /\ UNCHANGED notRename

\* execute(): path.rename(new)
ExecuteRename ==
    /\ pc = "path_rename"
    /\ folder' = PathRename(folder, renames[idx].old, renames[idx].new)
    /\ log' = Append(log, "rename")
    /\ idx' = idx + 1
    /\ pc' = "execute"
    /\ UNCHANGED <<config, folder0, paths, renames, error, status, alien>>
    /\ UNCHANGED notRename

\* execute() returns when the loop has run through the plan
ExecuteReturn ==
    /\ pc = "execute"
    /\ idx > Len(renames)
    /\ pc' = "summary"
    /\ UNCHANGED <<config, folder, folder0, paths, renames, idx, error, status, log, alien>>
    /\ UNCHANGED notRename

\* rename(): self.print_summary(renames); rename() returns None and
\* sys.exit(None) ends the run with status 0
PrintSummary ==
    /\ pc = "summary"
    /\ pc' = "exit"
    /\ status' = 0
    /\ UNCHANGED <<config, folder, folder0, paths, renames, idx, error, log, alien>>
    /\ UNCHANGED notRename

\* another process creates an entry under the target name of a plan entry,
\* after check() has returned and before the run ends
OtherProcessCreates ==
    /\ pc \in {"print", "execute", "path_rename"}
    /\ alien < MaxAlien
    /\ \E i \in 1..Len(renames) :
          /\ ~Exists(folder, renames[i].new)
          /\ folder' = folder \cup {[name |-> renames[i].new, data |-> <<"alien">>]}
    /\ alien' = alien + 1
    /\ UNCHANGED <<pc, config, folder0, paths, renames, idx, error, status, log>>
    /\ UNCHANGED notRename

NextRename ==
    \/ ListFolder
    \/ CalculateRenames
    \/ CheckRenames
    \/ PrintRenames
    \/ ExecuteRecheck
    \/ ExecuteRename
    \/ ExecuteReturn
    \/ PrintSummary
    \/ OtherProcessCreates

SpecRename == InitRename /\ [][NextRename]_vars

---------------------------------------------------------------------------
(* audiobook-chapterise.py: main(), from create_folder() on.  Clip k is   *)
(* the clip of chapter index k - 1; clips[k] is the state of the file     *)
(* under the name _make_filename() gives it: absent, partial or complete. *)

InitAudio ==
    /\ PartsOff
    /\ HevcOff
    /\ RustOff
    /\ TvOff
    /\ RenameOff
    /\ CleanOff
    /\ PaddingOff
    /\ NamesOff
    /\ BackupOff
    /\ MoviesOff
    /\ apc = "create_folder"
    /\ chapters \in 1..MaxChapters
    /\ aindex = 0
    /\ clips = [k \in 1..chapters |-> "absent"]
    /\ attempted = {}
    /\ progress = <<>>
    /\ outdir \in {"absent", "present"}
    /\ cwd = "start"
    /\ astatus = -1

\* create_folder() that takes an existing folder as it is
CreateFolderExistOk ==
    /\ apc = "create_folder"
    /\ apc' = "chdir"
    /\ outdir' = IF outdir = "absent" THEN "created" ELSE outdir
    /\ UNCHANGED <<chapters, aindex, clips, attempted, progress, cwd, astatus>>
    /\ UNCHANGED notAudio

\* main(): splitinator.create_folder(); the RuntimeError of an existing
\* folder is caught by main(), which exits with 1
CreateFolder ==
    /\ apc = "create_folder"
    /\ IF outdir # "absent"
       THEN apc' = "exit" /\ astatus' = 1 /\ UNCHANGED outdir
       ELSE apc' = "chdir" /\ outdir' = "created" /\ UNCHANGED astatus
    /\ UNCHANGED <<chapters, aindex, clips, attempted, progress, cwd>>
    /\ UNCHANGED notAudio

\* change_folder(): os.chdir(folder), up to the yield
ChangeFolder ==
    /\ apc = "chdir"
    /\ cwd' = "out"
    /\ apc' = "loop"
    /\ UNCHANGED <<chapters, aindex, clips, attempted, progress, outdir, astatus>>
    /\ UNCHANGED notAudio

\* main() that prints the progress line before it creates the clip
StartClipPrintsFirst ==
    /\ apc = "loop"
    /\ aindex < chapters
    /\ attempted' = attempted \cup {aindex + 1}
    /\ progress' = Append(progress, aindex + 1)
    /\ apc' = "ffmpeg"
    /\ UNCHANGED <<chapters, aindex, clips, outdir, cwd, astatus>>
    /\ UNCHANGED notAudio

\* create_clip(): ffmpeg_extract_audio() starts ffmpeg with the final file
\* name as its output
StartClip ==
    /\ apc = "loop"
    /\ aindex < chapters
    /\ attempted' = attempted \cup {aindex + 1}
    /\ apc' = "ffmpeg"
    /\ UNCHANGED <<chapters, aindex, clips, progress, outdir, cwd, astatus>>
    /\ UNCHANGED notAudio

\* run(): there is no ffmpeg on the system: SystemExit(100)
FfmpegNotFound ==
    /\ apc = "ffmpeg"
    /\ clips[aindex + 1] = "absent"
    /\ apc' = "exit"
    /\ astatus' = 100
    /\ UNCHANGED <<chapters, aindex, clips, attempted, progress, outdir, cwd>>
    /\ UNCHANGED notAudio

\* ffmpeg opens its output file, the final name, and begins to write
FfmpegOpen ==
    /\ apc = "ffmpeg"
    /\ clips[aindex + 1] = "absent"
    /\ clips' = [clips EXCEPT ![aindex + 1] = "partial"]
    /\ UNCHANGED <<apc, chapters, aindex, attempted, progress, outdir, cwd, astatus>>
    /\ UNCHANGED notAudio

\* ffmpeg ends with status 0: create_clip() returns, main() prints the
\* progress line and goes to the next chapter
FfmpegFinish ==
    /\ apc = "ffmpeg"
    /\ clips[aindex + 1] = "partial"
    /\ clips' = [clips EXCEPT ![aindex + 1] = "complete"]
    /\ progress' = Append(progress, aindex + 1)
    /\ aindex' = aindex + 1
    /\ apc' = "loop"
    /\ UNCHANGED <<chapters, attempted, outdir, cwd, astatus>>
    /\ UNCHANGED notAudio

\* main() that reports the RuntimeError and returns: exit status 0
FfmpegFailExitZero ==
    /\ apc = "ffmpeg"
    /\ apc' = "exit"
    /\ astatus' = 0
    /\ UNCHANGED <<chapters, aindex, clips, attempted, progress, outdir, cwd>>
    /\ UNCHANGED notAudio

\* run() that does not raise when ffmpeg fails: the loop goes on
FfmpegFailIgnored ==
    /\ apc = "ffmpeg"
    /\ progress' = Append(progress, aindex + 1)
    /\ aindex' = aindex + 1
    /\ apc' = "loop"
    /\ UNCHANGED <<chapters, clips, attempted, outdir, cwd, astatus>>
    /\ UNCHANGED notAudio

\* ffmpeg ends with another status, before or after it began to write:
\* run() raises RuntimeError, which leaves the loop and the with block;
\* main() catches it and exits with 1
FfmpegFail ==
    /\ apc = "ffmpeg"
    /\ apc' = "exit"
    /\ astatus' = 1
    /\ UNCHANGED <<chapters, aindex, clips, attempted, progress, outdir, cwd>>
    /\ UNCHANGED notAudio

\* the loop is over: change_folder() goes back, main() returns None
LoopDone ==
    /\ apc = "loop"
    /\ aindex = chapters
    /\ cwd' = "start"
    /\ apc' = "exit"
    /\ astatus' = 0
    /\ UNCHANGED <<chapters, aindex, clips, attempted, progress, outdir>>
    /\ UNCHANGED notAudio

\* the run is killed (signal, power loss): ffmpeg and main() stop where
\* they are
Killed ==
    /\ apc \notin {"off", "exit"}
    /\ apc' = "exit"
    /\ astatus' = 137
    /\ UNCHANGED <<chapters, aindex, clips, attempted, progress, outdir, cwd>>
    /\ UNCHANGED notAudio

NextAudio ==
    \/ CreateFolder
    \/ ChangeFolder
    \/ StartClip
    \/ FfmpegNotFound
    \/ FfmpegOpen
    \/ FfmpegFinish
    \/ FfmpegFail
    \/ LoopDone
    \/ Killed

SpecAudio == InitAudio /\ [][NextAudio]_vars

\* a run of rerename or a run of the audiobook splitter
InitExecutor == InitRename \/ InitAudio

NextExecutor == NextRename \/ NextAudio

SpecExecutor == InitExecutor /\ [][NextExecutor]_vars

---------------------------------------------------------------------------
(* audiobook-chapterise.py: clean_filename() *)

CleanChars == {"a", " ", "\t", ":", "!"}

CleanStrings == UNION {[1..k -> CleanChars] : k \in 0..MaxCleanLen}

\* str.isspace(), and \s of re
IsSpace(c) == c \in {" ", "\t"}

\* \w of re
IsWord(c) ==
    c \in {"a", "b", "A", "B", "_", "C", "e", "h", "m", "p", "r", "t",
           "0", "1", "2", "3", "4", "5", "6", "7", "8", "9"}

\* the characters the class [^\w\' .,\(\)] leaves out
IsLegal(c) == IsWord(c) \/ c \in {"'", " ", ".", ",", "(", ")"}

RECURSIVE LStrip(_)
LStrip(s) == IF s # <<>> /\ IsSpace(Head(s)) THEN LStrip(Tail(s)) ELSE s

RECURSIVE RStrip(_)
RStrip(s) ==
    IF s # <<>> /\ IsSpace(s[Len(s)]) THEN RStrip(SubSeq(s, 1, Len(s) - 1)) ELSE s

\* str.strip()
Strip(s) == RStrip(LStrip(s))

\* string.replace(':', ' - ')
RECURSIVE ReplaceColon(_)
ReplaceColon(s) ==
    IF s = <<>> THEN <<>>
    ELSE (IF Head(s) = ":" THEN <<" ", "-", " ">> ELSE <<Head(s)>>)
         \o ReplaceColon(Tail(s))

\* re.sub(r'[^\w\' .,\(\)]', ' ', string)
SubIllegal(s) == [i \in 1..Len(s) |-> IF IsLegal(s[i]) THEN s[i] ELSE " "]

\* re.sub(r'\s+', ' ', string)
RECURSIVE CompactSpaces(_)
CompactSpaces(s) ==
    IF s = <<>> THEN <<>>
    ELSE IF IsSpace(Head(s)) THEN <<" ">> \o CompactSpaces(LStrip(Tail(s)))
    ELSE <<Head(s)>> \o CompactSpaces(Tail(s))

clean_filename(filename) ==
    CompactSpaces(SubIllegal(ReplaceColon(Strip(filename))))

InitClean ==
    /\ PartsOff
    /\ HevcOff
    /\ RustOff
    /\ TvOff
    /\ RenameOff
    /\ AudioOff
    /\ PaddingOff
    /\ NamesOff
    /\ BackupOff
    /\ MoviesOff
    /\ \E s \in CleanStrings : cleaned = <<s>>

\* clean_filename() applied to the last result
ApplyClean ==
    /\ cleaned # <<>>
    /\ Len(cleaned) <= MaxApply
    /\ cleaned' = Append(cleaned, clean_filename(cleaned[Len(cleaned)]))
    /\ UNCHANGED notClean

NextClean == ApplyClean

SpecClean == InitClean /\ [][NextClean]_vars

---------------------------------------------------------------------------
(* audiobook-chapterise.py: Splitinator._calculate_padding() *)

RECURSIVE Pow10(_)
Pow10(p) == IF p = 0 THEN 1 ELSE 10 * Pow10(p - 1)

\* math.ceil(math.log(x, 10)) for an integer x >= 1: the least p with
\* 10^p >= x
RECURSIVE CeilLog10From(_, _)
CeilLog10From(x, p) == IF Pow10(p) >= x THEN p ELSE CeilLog10From(x, p + 1)

CeilLog10(x) == CeilLog10From(x, 0)

Max(a, b) == IF a >= b THEN a ELSE b

\* _calculate_padding() that forgets the + 1
PaddingWithoutPlusOne(max_value) == Max(2, CeilLog10(max_value))

\* padding = max(2, math.ceil(math.log(max_value + 1, 10)))
_calculate_padding(max_value) == Max(2, CeilLog10(max_value + 1))

InitPadding ==
    /\ PartsOff
    /\ HevcOff
    /\ RustOff
    /\ TvOff
    /\ RenameOff
    /\ AudioOff
    /\ CleanOff
    /\ NamesOff
    /\ BackupOff
    /\ MoviesOff
    /\ padcount \in 1..MaxPadCount
    /\ padding = 0

\* Splitinator.__init__: self.padding = self._calculate_padding(...)
SetPadding ==
    /\ padcount > 0
    /\ padding = 0
    /\ padding' = _calculate_padding(padcount)
    /\ fpc' = IF fpc = "init" THEN "loop" ELSE fpc
    /\ UNCHANGED <<padcount, titles, findex, filenames>>
    /\ UNCHANGED notPadding

NextPadding == SetPadding

SpecPadding == InitPadding /\ [][NextPadding]_vars

---------------------------------------------------------------------------
(* rerename.py: rename() up to the plan that calculate() returns *)

NextPlan == ListFolder \/ CalculateRenames

SpecPlan == InitRename /\ [][NextPlan]_vars

---------------------------------------------------------------------------
(* audiobook-chapterise.py: Splitinator.filenames(), _make_filename() *)

TitleChars == {"a", "7", " ", ":"}

\* the titles a chapter can have: every short string, and '007'
Titles ==
    UNION {[1..k -> TitleChars] : k \in 0..MaxTitleLen} \cup {<<"0", "0", "7">>}

\* the lists of n titles that repeat one or two titles in turn
TitleLists(n) ==
    {[k \in 1..n |-> IF k % 2 = 1 THEN t1 ELSE t2] : t1 \in Titles, t2 \in Titles}

DigitChars == <<"0", "1", "2", "3", "4", "5", "6", "7", "8", "9">>

\* str(n), n >= 0
RECURSIVE Str(_)
Str(n) ==
    IF n < 10 THEN <<DigitChars[n + 1]>>
    ELSE Str(n \div 10) \o <<DigitChars[(n % 10) + 1]>>

\* int(s) for a string of digits
RECURSIVE ToInt(_)
ToInt(s) ==
    IF s = <<>> THEN 0
    ELSE 10 * ToInt(SubSeq(s, 1, Len(s) - 1))
         + (CHOOSE d \in 0..9 : DigitChars[d + 1] = s[Len(s)])

\* f"{n:0>{width}}": str(n) filled with '0' on the left up to width
ZeroFill(n, width) ==
    LET digits == Str(n)
    IN [i \in 1..Max(0, width - Len(digits)) |-> "0"] \o digits

\* _make_filename() that does not pad the index
MakeFilenameNoPadding(index, title, width) ==
    clean_filename(Str(index + 1) \o <<".", " ">> \o title \o <<".", "m", "p", "3">>)

\* _make_filename() that numbers the chapters from zero
MakeFilenameZeroBased(index, title, width) ==
    clean_filename(ZeroFill(index, width) \o <<".", " ">> \o title
                   \o <<".", "m", "p", "3">>)

\* _make_filename() that leaves the title out
MakeFilenameNoTitle(index, title, width) ==
    clean_filename(ZeroFill(index + 1, width) \o <<".", " ">>
                   \o <<".", "m", "p", "3">>)

\* _make_filename(index, chapter) with self.padding = width, suffix = 'mp3'
_make_filename(index, title, width) ==
    LET ordinal == index + 1
        name == ZeroFill(ordinal, width) \o <<".", " ">> \o title
                \o <<".", "m", "p", "3">>
    IN clean_filename(name)

\* Splitinator.__init__ up to the call of _calculate_padding
InitNames ==
    /\ PartsOff
    /\ HevcOff
    /\ RustOff
    /\ TvOff
    /\ RenameOff
    /\ AudioOff
    /\ CleanOff
    /\ BackupOff
    /\ MoviesOff
    /\ fpc = "init"
    /\ \E n \in 1..MaxBookChapters : titles \in TitleLists(n)
    /\ padcount = Len(titles)
    /\ padding = 0
    /\ findex = 0
    /\ filenames = <<>>

\* one turn of the loop of filenames()
FilenamesAppend ==
    /\ fpc = "loop"
    /\ findex < Len(titles)
    /\ filenames' = Append(filenames, _make_filename(findex, titles[findex + 1], padding))
    /\ findex' = findex + 1
    /\ UNCHANGED <<fpc, titles, paddingVars>>
    /\ UNCHANGED notNames

\* return filenames
FilenamesReturn ==
    /\ fpc = "loop"
    /\ findex = Len(titles)
    /\ fpc' = "returned"
    /\ UNCHANGED <<titles, findex, filenames, paddingVars>>
    /\ UNCHANGED notNames

NextNames == SetPadding \/ FilenamesAppend \/ FilenamesReturn

SpecNames == InitNames /\ [][NextNames]_vars

---------------------------------------------------------------------------
(* sqlite3-vacuum.py: main(), vacuum(), backup() *)

\* a backup file: absent, or what 'sqlite3 .backup' wrote in run number run,
\* in part or in full
Absent == [state |-> "absent", run |-> 0]

Partial(r) == [state |-> "partial", run |-> r]

Complete(r) == [state |-> "complete", run |-> r]

Databases == 1..MaxDatabases

\* Path.exists()
FileExists(f) == f.state # "absent"

\* sqlite3-vacuum is run once more: main() enters its loop
MainStart ==
    /\ bpc = "idle"
    /\ brun < MaxBackupRuns
    /\ brun' = brun + 1
    /\ bdb' = 1
    /\ bpc' = "vacuum"
    /\ UNCHANGED bfiles
    /\ UNCHANGED notBackup

\* vacuum(db_file): both commands succeed
Vacuum ==
    /\ bpc = "vacuum"
    /\ bpc' = "rotate"
    /\ UNCHANGED <<brun, bdb, bfiles>>
    /\ UNCHANGED notBackup

\* run() raises CalledProcessError in vacuum(): the program ends
VacuumFail ==
    /\ bpc = "vacuum"
    /\ bpc' = "idle"
    /\ bdb' = 0
    /\ UNCHANGED <<brun, bfiles>>
    /\ UNCHANGED notBackup

\* backup(): if backup.exists(): backup.rename(previous_backup)
RotateBackup ==
    /\ bpc = "rotate"
    /\ bfiles' = IF FileExists(bfiles[bdb].old)
                 THEN [bfiles EXCEPT ![bdb] = [old |-> Absent, older |-> @.old]]
                 ELSE bfiles
    /\ bpc' = "create"
    /\ UNCHANGED <<brun, bdb>>
    /\ UNCHANGED notBackup

\* sqlite3 opens the '.old' file and starts to copy pages into it
SqliteBackupOpen ==
    /\ bpc = "create"
    /\ bfiles' = [bfiles EXCEPT ![bdb].old = Partial(brun)]
    /\ bpc' = "writing"
    /\ UNCHANGED <<brun, bdb>>
    /\ UNCHANGED notBackup

\* sqlite3 has copied every page and exits with status 0
SqliteBackupFinish ==
    /\ bpc = "writing"
    /\ bfiles' = [bfiles EXCEPT ![bdb].old = Complete(brun)]
    /\ bpc' = "delete"
    /\ UNCHANGED <<brun, bdb>>
    /\ UNCHANGED notBackup

\* sqlite3 fails, before or after it has opened the '.old' file: run()
\* raises CalledProcessError and the program ends
SqliteBackupFail ==
    /\ bpc \in {"create", "writing"}
    /\ bpc' = "idle"
    /\ bdb' = 0
    /\ UNCHANGED <<brun, bfiles>>
    /\ UNCHANGED notBackup

\* backup(): if previous_backup.exists(): previous_backup.unlink(); then
\* main() goes to the next database
DeletePrevious ==
    /\ bpc = "delete"
    /\ bfiles' = [bfiles EXCEPT ![bdb].older = Absent]
    /\ IF bdb < MaxDatabases
       THEN bdb' = bdb + 1 /\ bpc' = "vacuum"
       ELSE bdb' = 0 /\ bpc' = "idle"
    /\ UNCHANGED brun
    /\ UNCHANGED notBackup

InitBackup ==
    /\ PartsOff
    /\ HevcOff
    /\ RustOff
    /\ TvOff
    /\ RenameOff
    /\ AudioOff
    /\ CleanOff
    /\ PaddingOff
    /\ NamesOff
    /\ MoviesOff
    /\ bpc = "idle"
    /\ brun = 0
    /\ bdb = 0
    /\ bfiles = [d \in Databases |-> [old |-> Absent, older |-> Absent]]

NextBackup ==
    \/ MainStart
    \/ Vacuum
    \/ VacuumFail
    \/ RotateBackup
    \/ SqliteBackupOpen
    \/ SqliteBackupFinish
    \/ SqliteBackupFail
    \/ DeletePrevious

SpecBackup == InitBackup /\ [][NextBackup]_vars

---------------------------------------------------------------------------
(* movies-group-by-year.py: into_subfolders(), from_subfolders() *)

\* an entry of a folder: a file, or a directory with its own entries
File(name) == [name |-> name, kind |-> "file", kids |-> {}]

Dir(name, kids) == [name |-> name, kind |-> "dir", kids |-> kids]

\* names the entries of the root folder can have: '1111', '1111a',
\* 'a(1111)', 'b(1111)', '1111(2222)' and 'a'
RootNames ==
    { <<"1", "1", "1", "1">>,
      <<"1", "1", "1", "1", "a">>,
      <<"a", "(", "1", "1", "1", "1", ")">>,
      <<"b", "(", "1", "1", "1", "1", ")">>,
      <<"1", "1", "1", "1", "(", "2", "2", "2", "2", ")">>,
      <<"a">> }

\* what a directory of the root folder can hold: a file 'a', a movie
\* folder 'b(1111)' with its film in it, both, or nothing
KidSets == SUBSET {File(<<"a">>),
                   Dir(<<"b", "(", "1", "1", "1", "1", ")">>, {File(<<"a">>)})}

RootEntries(name) == {File(name)} \cup {Dir(name, kids) : kids \in KidSets}

\* the folders with the given names, each name a file or a directory
RECURSIVE Trees(_)
Trees(names) ==
    IF names = {} THEN {{}}
    ELSE LET n == CHOOSE x \in names : TRUE
         IN {t \cup {e} : t \in Trees(names \ {n}), e \in RootEntries(n)}

RootFolders ==
    UNION {Trees(names) : names \in {N \in SUBSET RootNames :
                                        Cardinality(N) <= MaxRootEntries}}

\* \d of re
IsDigit(c) == \E d \in 1..10 : c = DigitChars[d]

NoYear == -1

\* extract_year(): re.search(r"\((\d\d\d\d)\)$", path.name), then int()
extract_year(name) ==
    LET n == Len(name)
    IN IF /\ n >= 6
          /\ name[n - 5] = "("
          /\ \A i \in (n - 4)..(n - 1) : IsDigit(name[i])
          /\ name[n] = ")"
       THEN ToInt(SubSeq(name, n - 4, n - 1))
       ELSE NoYear

\* is_year(): re.match(r"\d\d\d\d", name)
is_year(name) == Len(name) >= 4 /\ \A i \in 1..4 : IsDigit(name[i])

\* Path.exists() of folder / name
Has(entries, name) == \E e \in entries : e.name = name

Lookup(entries, name) == CHOOSE e \in entries : e.name = name

Names(entries) == {e.name : e \in entries}

\* os.rename(source, folder / source.name) succeeds: the target is absent,
\* or a file replaced by a file, or an empty directory replaced by a
\* directory
CanRenameInto(source, entries) ==
    \/ ~Has(entries, source.name)
    \/ LET target == Lookup(entries, source.name)
       IN IF source.kind = "file" THEN target.kind = "file"
          ELSE target.kind = "dir" /\ target.kids = {}

\* the entries after the rename has replaced what was at the target
Put(entries, e) == {x \in entries : x.name # e.name} \cup {e}

\* the orders in which iterdir() can yield a set of names
Orders(S) ==
    {p \in [1..Cardinality(S) -> S] : \A i, j \in 1..Cardinality(S) : p[i] = p[j] => i = j}

\* the order in which into_subfolders() visits the movies that iterdir()
\* yields in order p: year by year, years by first appearance
RECURSIVE GroupByYear(_)
GroupByYear(p) ==
    IF p = <<>> THEN <<>>
    ELSE LET year == extract_year(Head(p))
         IN SelectSeq(p, LAMBDA n : extract_year(n) = year)
            \o GroupByYear(SelectSeq(p, LAMBDA n : extract_year(n) # year))

InitMovies ==
    /\ PartsOff
    /\ HevcOff
    /\ RustOff
    /\ TvOff
    /\ RenameOff
    /\ AudioOff
    /\ CleanOff
    /\ PaddingOff
    /\ NamesOff
    /\ BackupOff
    /\ mpc = "into_start"
    /\ mroot \in RootFolders
    /\ mroot0 = mroot
    /\ mqueue = <<>>
    /\ msub = <<>>
    /\ mstatus = -1

\* into_subfolders(): movies = find_movie_folders(root)
IntoStart ==
    /\ mpc = "into_start"
    /\ \E p \in Orders({n \in Names(mroot) : extract_year(n) # NoYear}) :
           mqueue' = GroupByYear(p)
    /\ mpc' = "into"
    /\ UNCHANGED <<mroot, mroot0, msub, mstatus>>
    /\ UNCHANGED notMovies

\* into_subfolders(): the year's folder is made if root has no such entry,
\* and the next movie is renamed into it; an OSError ends the run
IntoMove ==
    /\ mpc = "into"
    /\ mqueue # <<>>
    /\ LET folder_ == Lookup(mroot, Head(mqueue))
           year == Str(extract_year(folder_.name))
           made == IF Has(mroot, year) THEN mroot ELSE mroot \cup {Dir(year, {})}
           destination == Lookup(made, year)
       IN IF destination.kind = "dir" /\ CanRenameInto(folder_, destination.kids)
          THEN /\ mroot' = Put(made \ {folder_},
                               Dir(year, Put(destination.kids, folder_)))
               /\ mqueue' = Tail(mqueue)
               /\ UNCHANGED <<mpc, mstatus>>
          ELSE /\ mroot' = made
               /\ mqueue' = <<>>
               /\ mpc' = "failed"
               /\ mstatus' = 255
    /\ UNCHANGED <<mroot0, msub>>
    /\ UNCHANGED notMovies

\* into_subfolders() returns and main() with it
IntoReturn ==
    /\ mpc = "into"
    /\ mqueue = <<>>
    /\ mpc' = "from_start"
    /\ mstatus' = 0
    /\ UNCHANGED <<mroot, mroot0, mqueue, msub>>
    /\ UNCHANGED notMovies

\* the program is run again with --reverse: from_subfolders() lists root;
\* the loop skips the names is_year() rejects
FromStart ==
    /\ mpc = "from_start"
    /\ \E p \in Orders(Names(mroot)) : mqueue' = SelectSeq(p, is_year)
    /\ mpc' = "from"
    /\ mstatus' = -1
    /\ UNCHANGED <<mroot, mroot0, msub>>
    /\ UNCHANGED notMovies

\* from_subfolders(): path.iterdir() of the next year folder; it raises
\* NotADirectoryError when the entry is a file
FromEnter ==
    /\ mpc = "from"
    /\ mqueue # <<>>
    /\ LET path == Lookup(mroot, Head(mqueue))
       IN IF path.kind = "dir"
          THEN /\ \E p \in Orders(Names(path.kids)) : msub' = p
               /\ mpc' = "from_move"
               /\ UNCHANGED <<mqueue, mstatus>>
          ELSE /\ mpc' = "failed"
               /\ mstatus' = 255
               /\ mqueue' = <<>>
               /\ UNCHANGED msub
    /\ UNCHANGED <<mroot, mroot0>>
    /\ UNCHANGED notMovies

\* from_subfolders(): subpath.rename(path.parent / subpath.name)
FromMove ==
    /\ mpc = "from_move"
    /\ msub # <<>>
    /\ LET path == Lookup(mroot, Head(mqueue))
           subpath == Lookup(path.kids, Head(msub))
       IN IF CanRenameInto(subpath, mroot)
          THEN /\ mroot' = Put(Put(mroot, Dir(path.name, path.kids \ {subpath})),
                               subpath)
               /\ msub' = Tail(msub)
               /\ UNCHANGED <<mpc, mqueue, mstatus>>
          ELSE /\ mpc' = "failed"
               /\ mstatus' = 255
               /\ mqueue' = <<>>
               /\ msub' = <<>>
               /\ UNCHANGED mroot
    /\ UNCHANGED mroot0
    /\ UNCHANGED notMovies

\* from_subfolders(): path.rmdir(), and on to the next entry of root
FromRmdir ==
    /\ mpc = "from_move"
    /\ msub = <<>>
    /\ mroot' = {e \in mroot : e.name # Head(mqueue)}
    /\ mqueue' = Tail(mqueue)
    /\ mpc' = "from"
    /\ UNCHANGED <<mroot0, msub, mstatus>>
    /\ UNCHANGED notMovies

\* from_subfolders() returns and main() with it
FromReturn ==
    /\ mpc = "from"
    /\ mqueue = <<>>
    /\ mpc' = "done"
    /\ mstatus' = 0
    /\ UNCHANGED <<mroot, mroot0, mqueue, msub>>
    /\ UNCHANGED notMovies

NextMovies ==
    \/ IntoStart
    \/ IntoMove
    \/ IntoReturn
    \/ FromStart
    \/ FromEnter
    \/ FromMove
    \/ FromRmdir
    \/ FromReturn

SpecMovies == InitMovies /\ [][NextMovies]_vars

---------------------------------------------------------------------------
(* tv-subtitles.py: main(), SubtitleFinder *)

SUBTITLE_MIN_SIZE == 10000

\* a subtitle file: the language tag in its name, the language of its
\* text, and its size in bytes
Subtitle(name, lang, size) == [name |-> name, lang |-> lang, size |-> size]

\* the files that can lie under Subs for an episode: English ones of
\* three sizes, a French one and a Bengali one
SubtitlePool ==
    { Subtitle(<<"e", "n", "g">>, "english", 20000),
      Subtitle(<<"E", "N", "G">>, "english", 30000),
      Subtitle(<<"e", "n", "g">>, "english", 5000),
      Subtitle(<<"f", "r", "e">>, "french", 20000),
      Subtitle(<<"b", "e", "n", "g">>, "bengali", 20000) }

\* what Subs can hold for one episode; none also when there is no Subs
CandidateSets == {S \in SUBSET SubtitlePool : Cardinality(S) <= 2}

\* what can be at <root>/<episode base name>.srt when the program starts:
\* nothing, a subtitle file, or a directory
NoSrt == [kind |-> "absent", content |-> {}]

SrtFile(subtitle) == [kind |-> "file", content |-> {subtitle}]

SrtDir(inside) == [kind |-> "dir", content |-> inside]

OldSubtitle == Subtitle(<<"o", "l", "d">>, "english", 20000)

SrtStates == {NoSrt, SrtFile(OldSubtitle), SrtDir({})}

\* str.casefold()
Casefold(s) == [i \in 1..Len(s) |-> Fold(s[i])]

\* sub in s
Contains(s, sub) ==
    \E i \in 0..(Len(s) - Len(sub)) : SubSeq(s, i + 1, i + Len(sub)) = sub

\* SubtitleFinder.filter_language()
filter_language(subs) ==
    {p \in subs :
        \/ Contains(Casefold(p.name), <<"e", "n", "g", "l", "i", "s", "h">>)
        \/ Contains(Casefold(p.name), <<"e", "n", "g">>)}

\* SubtitleFinder.filter_small()
filter_small(subs) == {p \in subs : p.size > SUBTITLE_MIN_SIZE}

\* SubtitleFinder.find_subtitle() for an episode with no subtitle in place,
\* found being what list_subtitles() returns: the files it can return (two
\* of equal size come in the order of iterdir()), none when it raises
find_subtitle(found) ==
    IF found = {} THEN {}
    ELSE IF Cardinality(found) = 1 THEN found
    ELSE LET subtitles == filter_small(filter_language(found))
         IN IF Cardinality(subtitles) = 2
            THEN {p \in subtitles : \A q \in subtitles : p.size <= q.size}
            ELSE IF Cardinality(subtitles) = 1 THEN subtitles
            ELSE {}

\* has_subtitle() that finds no subtitle in place
HasSubtitleNever(k) == FALSE

\* SubtitleFinder.has_subtitle(): subtitle_path.is_file()
has_subtitle(k) == tsrt[k].kind = "file"

InitTv ==
    /\ PartsOff
    /\ HevcOff
    /\ RustOff
    /\ RenameOff
    /\ AudioOff
    /\ CleanOff
    /\ PaddingOff
    /\ NamesOff
    /\ BackupOff
    /\ MoviesOff
    /\ tpc = "init"
    /\ tcount \in 1..MaxEpisodes
    /\ tsrt \in [1..tcount -> SrtStates]
    /\ tsrt0 = tsrt
    /\ tcands \in [1..tcount -> CandidateSets]
    /\ tindex = 0
    /\ tcopied = [k \in 1..tcount |-> {}]
    /\ tstatus = -1

\* SeriesFolder.__init__: fewer than two episodes raise RuntimeError
SeriesFolderInit ==
    /\ tpc = "init"
    /\ IF tcount < 2
       THEN tpc' = "exit" /\ tstatus' = 1
       ELSE tpc' = "every" /\ UNCHANGED tstatus
    /\ UNCHANGED <<tcount, tsrt, tsrt0, tcands, tindex, tcopied>>
    /\ UNCHANGED notTv

\* main(): if folder.has_every_subtitle(): return 0
HasEverySubtitle ==
    /\ tpc = "every"
    /\ IF \A k \in 1..tcount : has_subtitle(k)
       THEN tpc' = "exit" /\ tstatus' = 0
       ELSE tpc' = "loop" /\ UNCHANGED tstatus
    /\ UNCHANGED <<tcount, tsrt, tsrt0, tcands, tindex, tcopied>>
    /\ UNCHANGED notTv

\* main(): if folder.has_subtitle(episode): continue
SkipEpisode ==
    /\ tpc = "loop"
    /\ tindex < tcount
    /\ has_subtitle(tindex + 1)
    /\ tindex' = tindex + 1
    /\ UNCHANGED <<tpc, tcount, tsrt, tsrt0, tcands, tcopied, tstatus>>
    /\ UNCHANGED notTv

\* main(): subtitle = folder.find_subtitle(episode); copy_subtitle():
\* shutil.copy2 writes the destination, or into it when it is a directory
CopySubtitle ==
    /\ tpc = "loop"
    /\ tindex < tcount
    /\ ~has_subtitle(tindex + 1)
    /\ \E subtitle \in find_subtitle(tcands[tindex + 1]) :
          /\ tsrt' = [tsrt EXCEPT ![tindex + 1] =
                         IF @.kind = "dir" THEN SrtDir(@.content \cup {subtitle})
                         ELSE SrtFile(subtitle)]
          /\ tcopied' = [tcopied EXCEPT ![tindex + 1] = {subtitle}]
    /\ tindex' = tindex + 1
    /\ UNCHANGED <<tpc, tcount, tsrt0, tcands, tstatus>>
    /\ UNCHANGED notTv

\* find_subtitle() raises RuntimeError or NotImplementedError
FindSubtitleRaises ==
    /\ tpc = "loop"
    /\ tindex < tcount
    /\ ~has_subtitle(tindex + 1)
    /\ find_subtitle(tcands[tindex + 1]) = {}
    /\ tpc' = "exit"
    /\ tstatus' = 1
    /\ UNCHANGED <<tcount, tsrt, tsrt0, tcands, tindex, tcopied>>
    /\ UNCHANGED notTv

\* main(): return 0
TvReturn ==
    /\ tpc = "loop"
    /\ tindex = tcount
    /\ tpc' = "exit"
    /\ tstatus' = 0
    /\ UNCHANGED <<tcount, tsrt, tsrt0, tcands, tindex, tcopied>>
    /\ UNCHANGED notTv

NextTv ==
    \/ SeriesFolderInit
    \/ HasEverySubtitle
    \/ SkipEpisode
    \/ CopySubtitle
    \/ FindSubtitleRaises
    \/ TvReturn

SpecTv == InitTv /\ [][NextTv]_vars

---------------------------------------------------------------------------
(* rust-clean.py: find_unclean(), clean(), main() *)

ignored_folders == {".git", "src", "target"}

\* names a folder can have
DirNames == {"a", "src", "target"}

\* the folders there can be under the root, each the path to it
DirPaths == {<<x>> : x \in DirNames} \cup {<<x, y>> : x, y \in DirNames}

\* the trees under a root: every folder's parent is in the tree
DirTrees ==
    {T \in SUBSET DirPaths :
        /\ Cardinality(T) <= MaxDirs
        /\ \A d \in T : Len(d) > 1 => SubSeq(d, 1, Len(d) - 1) \in T}

\* dirpath.name
DirName(d) == IF d = <<>> THEN rroot ELSE d[Len(d)]

\* dirnames of walk(): the folders directly in folder d
Subfolders(dirs, d) == {e \in dirs : Len(e) = Len(d) + 1 /\ SubSeq(e, 1, Len(d)) = d}

\* find_unclean() that ignores no folder
IgnoredNever(d) == FALSE

\* dirpath.name in ignored_folders
Ignored(d) == DirName(d) \in ignored_folders

\* 'target' in dirnames and 'Cargo.toml' in filenames
NeedsCleaning(dirs, d) == Append(d, "target") \in dirs /\ d \in rtoml

\* d is folder e or lies below it
Below(d, e) == Len(d) >= Len(e) /\ SubSeq(d, 1, Len(e)) = e

InitRust ==
    /\ PartsOff
    /\ HevcOff
    /\ TvOff
    /\ RenameOff
    /\ AudioOff
    /\ CleanOff
    /\ PaddingOff
    /\ NamesOff
    /\ BackupOff
    /\ MoviesOff
    /\ rpc = "walk"
    /\ rroot \in {"a", "src"}
    /\ rdirs \in DirTrees
    /\ rdirs0 = rdirs
    /\ rtoml \in SUBSET (rdirs \cup {<<>>})
    /\ rstack = <<<<>>>>
    /\ rcleaned = {}
    /\ rstatus = -1

\* find_unclean(): an ignored folder is passed over, and with
\* dirnames.clear() all that is below it
WalkIgnored ==
    /\ rpc = "walk"
    /\ rstack # <<>>
    /\ Ignored(Head(rstack))
    /\ rstack' = Tail(rstack)
    /\ UNCHANGED <<rpc, rroot, rdirs, rdirs0, rtoml, rcleaned, rstatus>>
    /\ UNCHANGED notRust

\* find_unclean(): a folder that is no project; walk() goes on with its
\* folders, in the order the system lists them
WalkFolder ==
    /\ rpc = "walk"
    /\ rstack # <<>>
    /\ ~Ignored(Head(rstack))
    /\ ~NeedsCleaning(rdirs, Head(rstack))
    /\ \E order \in Orders(Subfolders(rdirs, Head(rstack))) :
          rstack' = order \o Tail(rstack)
    /\ UNCHANGED <<rpc, rroot, rdirs, rdirs0, rtoml, rcleaned, rstatus>>
    /\ UNCHANGED notRust

\* find_unclean(): yield dirpath; walk() has listed the folders of dirpath
WalkProject ==
    /\ rpc = "walk"
    /\ rstack # <<>>
    /\ ~Ignored(Head(rstack))
    /\ NeedsCleaning(rdirs, Head(rstack))
    /\ \E order \in Orders(Subfolders(rdirs, Head(rstack))) :
          rstack' = <<Head(rstack)>> \o order \o Tail(rstack)
    /\ rpc' = "clean"
    /\ UNCHANGED <<rroot, rdirs, rdirs0, rtoml, rcleaned, rstatus>>
    /\ UNCHANGED notRust

\* clean(): 'cargo clean' succeeds and removes the project's target folder
CargoClean ==
    /\ rpc = "clean"
    /\ rcleaned' = rcleaned \cup {Head(rstack)}
    /\ rdirs' = {d \in rdirs : ~Below(d, Append(Head(rstack), "target"))}
    /\ rstack' = Tail(rstack)
    /\ rpc' = "walk"
    /\ UNCHANGED <<rroot, rdirs0, rtoml, rstatus>>
    /\ UNCHANGED notRust

\* clean(): 'cargo clean' fails, run(check=True) raises and the program ends
CargoCleanFails ==
    /\ rpc = "clean"
    /\ rpc' = "exit"
    /\ rstatus' = 1
    /\ rstack' = <<>>
    /\ UNCHANGED <<rroot, rdirs, rdirs0, rtoml, rcleaned>>
    /\ UNCHANGED notRust

\* main(): return 0
RustReturn ==
    /\ rpc = "walk"
    /\ rstack = <<>>
    /\ rpc' = "exit"
    /\ rstatus' = 0
    /\ UNCHANGED <<rroot, rdirs, rdirs0, rtoml, rstack, rcleaned>>
    /\ UNCHANGED notRust

NextRust ==
    \/ WalkIgnored
    \/ WalkFolder
    \/ WalkProject
    \/ CargoClean
    \/ CargoCleanFails
    \/ RustReturn

SpecRust == InitRust /\ [][NextRust]_vars

---------------------------------------------------------------------------
(* hevc-convert *)

\* main(): videos named on the command line and a fresh temporary folder
InitHevc ==
    /\ PartsOff
    /\ RenameOff
    /\ AudioOff
    /\ CleanOff
    /\ PaddingOff
    /\ NamesOff
    /\ BackupOff
    /\ MoviesOff
    /\ TvOff
    /\ RustOff
    /\ hpc = "encode"
    /\ hvideos \in 1..MaxVideos
    /\ hindex = 0
    /\ hvideo = [k \in 1..hvideos |-> "old"]
    /\ htemp = "absent"
    /\ hencoded = {}
    /\ hstatus = -1

\* hevc_convert(): subprocess.run(args, check=True) starts ffmpeg, which
\* writes the new video into the temporary folder
FfmpegStart ==
    /\ hpc = "encode"
    /\ hindex < hvideos
    /\ htemp' = "partial"
    /\ hpc' = "ffmpeg"
    /\ UNCHANGED <<hvideos, hindex, hvideo, hencoded, hstatus>>
    /\ UNCHANGED notHevc

\* ffmpeg exits with 0
FfmpegSucceeds ==
    /\ hpc = "ffmpeg"
    /\ htemp' = "complete"
    /\ hencoded' = hencoded \cup {hindex + 1}
    /\ hpc' = "copy"
    /\ UNCHANGED <<hvideos, hindex, hvideo, hstatus>>
    /\ UNCHANGED notHevc

\* ffmpeg exits non-zero: check=True raises CalledProcessError, nothing
\* catches it, TemporaryDirectory removes the folder on the way out
FfmpegFails ==
    /\ hpc = "ffmpeg"
    /\ htemp' = "absent"
    /\ hpc' = "exit"
    /\ hstatus' = 1
    /\ UNCHANGED <<hvideos, hindex, hvideo, hencoded>>
    /\ UNCHANGED notHevc

\* shutil.copyfile(output_video, video) opens the video for writing, which
\* truncates it, and copies the new content into it piece by piece
CopyfileOpen ==
    /\ hpc = "copy"
    /\ hvideo' = [hvideo EXCEPT ![hindex + 1] = "partial"]
    /\ hpc' = "copying"
    /\ UNCHANGED <<hvideos, hindex, htemp, hencoded, hstatus>>
    /\ UNCHANGED notHevc

\* the copy has written the last piece
CopyfileFinish ==
    /\ hpc = "copying"
    /\ hvideo' = [hvideo EXCEPT ![hindex + 1] = "new"]
    /\ hpc' = "unlink"
    /\ UNCHANGED <<hvideos, hindex, htemp, hencoded, hstatus>>
    /\ UNCHANGED notHevc

\* the copy raises OSError (a full disk, a read error) part of the way
CopyfileFails ==
    /\ hpc = "copying"
    /\ htemp' = "absent"
    /\ hpc' = "exit"
    /\ hstatus' = 1
    /\ UNCHANGED <<hvideos, hindex, hvideo, hencoded>>
    /\ UNCHANGED notHevc

\* output_video.unlink(), and main() goes on to the next video
UnlinkOutput ==
    /\ hpc = "unlink"
    /\ htemp' = "absent"
    /\ hindex' = hindex + 1
    /\ hpc' = "encode"
    /\ UNCHANGED <<hvideos, hvideo, hencoded, hstatus>>
    /\ UNCHANGED notHevc

\* main(): every video is done, return 0
HevcReturn ==
    /\ hpc = "encode"
    /\ hindex = hvideos
    /\ hpc' = "exit"
    /\ hstatus' = 0
    /\ UNCHANGED <<hvideos, hindex, hvideo, htemp, hencoded>>
    /\ UNCHANGED notHevc

\* the process is killed, or the power is lost, at any point
HevcKilled ==
    /\ hpc \notin {"off", "exit"}
    /\ hpc' = "exit"
    /\ hstatus' = 137
    /\ UNCHANGED <<hvideos, hindex, hvideo, htemp, hencoded>>
    /\ UNCHANGED notHevc

NextHevc ==
    \/ FfmpegStart
    \/ FfmpegSucceeds
    \/ FfmpegFails
    \/ CopyfileOpen
    \/ CopyfileFinish
    \/ CopyfileFails
    \/ UnlinkOutput
    \/ HevcReturn
    \/ HevcKilled

SpecHevc == InitHevc /\ [][NextHevc]_vars

---------------------------------------------------------------------------
(* audiobook-chapterise.py: Chapteriser.chapterise(), make_parts().  The  *)
(* duration is a whole number of minutes; a time is a fraction            *)
(* <<numerator, denominator>> of a minute, so that duration / num_parts   *)
(* is kept exactly.                                                       *)

\* Chapteriser.target_minutes
target_minutes == 20

Chapter(start, end, title) == [start |-> start, end |-> end, title |-> title]

\* round(n / d) of Python for n >= 0, d > 0: to the nearest integer, a tie
\* to the even one
RoundHalfEven(n, d) ==
    LET q == n \div d
        r == n % d
    IN IF 2 * r < d THEN q
       ELSE IF 2 * r > d THEN q + 1
       ELSE IF q % 2 = 0 THEN q ELSE q + 1

\* a + b and a = b for fractions
RatAdd(a, b) == <<a[1] * b[2] + b[1] * a[2], a[2] * b[2]>>

RatEq(a, b) == a[1] * b[2] = b[1] * a[2]

\* f"Part {index}"
PartTitle(index) == <<"P", "a", "r", "t", " ">> \o Str(index)

\* Chapteriser.__init__: the duration, and the chapter metadata of the
\* file: none, or one chapter for the whole file
InitParts ==
    /\ RenameOff
    /\ AudioOff
    /\ CleanOff
    /\ PaddingOff
    /\ NamesOff
    /\ BackupOff
    /\ MoviesOff
    /\ TvOff
    /\ RustOff
    /\ HevcOff
    /\ ppc = "chapterise"
    /\ pduration \in 1..MaxMinutes
    /\ pmeta \in {<<>>, <<Chapter(<<0, 1>>, <<pduration, 1>>, <<"a">>)>>}
    /\ pnum = 0
    /\ pstart = <<0, 1>>
    /\ pend = <<0, 1>>
    /\ pparts = <<>>

\* chapterise(): the chapters of the metadata are returned as they are
ChapteriseFromMetadata ==
    /\ ppc = "chapterise"
    /\ pmeta # <<>>
    /\ pparts' = pmeta
    /\ ppc' = "done"
    /\ UNCHANGED <<pduration, pmeta, pnum, pstart, pend>>
    /\ UNCHANGED notParts

\* chapterise(): no chapters, fall back to make_parts()
ChapteriseFallback ==
    /\ ppc = "chapterise"
    /\ pmeta = <<>>
    /\ ppc' = "make_parts"
    /\ UNCHANGED <<pduration, pmeta, pnum, pstart, pend, pparts>>
    /\ UNCHANGED notParts

\* make_parts(): num_parts = round((duration / 60) / target_minutes);
\* seconds = duration / num_parts raises ZeroDivisionError for 0 parts
MakePartsBegin ==
    /\ ppc = "make_parts"
    /\ LET num_parts == RoundHalfEven(pduration, target_minutes)
       IN /\ pnum' = num_parts
          /\ IF num_parts = 0
             THEN /\ ppc' = "raised"
                  /\ UNCHANGED <<pstart, pend>>
             ELSE /\ ppc' = "loop"
                  /\ pstart' = <<0, 1>>
                  /\ pend' = <<pduration, num_parts>>
    /\ UNCHANGED <<pduration, pmeta, pparts>>
    /\ UNCHANGED notParts

\* make_parts(): one turn of the loop over range(1, num_parts + 1)
MakePartsAppend ==
    /\ ppc = "loop"
    /\ Len(pparts) < pnum
    /\ pparts' = Append(pparts, Chapter(pstart, pend, PartTitle(Len(pparts) + 1)))
    /\ pstart' = pend
    /\ pend' = RatAdd(pend, <<pduration, pnum>>)
    /\ UNCHANGED <<ppc, pduration, pmeta, pnum>>
    /\ UNCHANGED notParts

\* make_parts(): return chapters
MakePartsReturn ==
    /\ ppc = "loop"
    /\ Len(pparts) = pnum
    /\ ppc' = "done"
    /\ UNCHANGED <<pduration, pmeta, pnum, pstart, pend, pparts>>
    /\ UNCHANGED notParts

NextParts ==
    \/ ChapteriseFromMetadata
    \/ ChapteriseFallback
    \/ MakePartsBegin
    \/ MakePartsAppend
    \/ MakePartsReturn

SpecParts == InitParts /\ [][NextParts]_vars

---------------------------------------------------------------------------
(* What the claims about rerename speak of *)

Renamed == {i \in 1..Len(log) : log[i] = "rename"}

Checked == log # <<>>

CheckFailed == Checked /\ log[1] = "check_failed"

\* the target of plan entry i existed when check() ran
TargetExists(i) == Exists(folder0, renames[i].new)

\* the target of plan entry i is the target of an earlier entry
TargetRepeats(i) == \E j \in 1..(i - 1) : renames[j].new = renames[i].new

Conflicts == {i \in 1..Len(renames) : TargetExists(i) \/ TargetRepeats(i)}

FirstConflict == CHOOSE i \in Conflicts : \A j \in Conflicts : i <= j

\* the error that tells of the conflict of plan entry i
ConflictError(i) ==
    IF TargetExists(i) THEN OverwriteError(renames[i].new)
    ELSE DuplicateError(
            renames[CHOOSE j \in 1..(i - 1) : renames[j].new = renames[i].new].old,
            renames[i].old, renames[i].new)

\* entry i of the plan has been carried out: its content is under the
\* target name and its source name is gone
Done(i) ==
    /\ [name |-> renames[i].new, data |-> renames[i].old] \in folder
    /\ ~\E e \in folder : e.name = renames[i].old /\ e.data = renames[i].old

\* entry i of the plan has not been touched
Untouched(i) == [name |-> renames[i].old, data |-> renames[i].old] \in folder

Sources == {renames[i].old : i \in 1..Len(renames)}

---------------------------------------------------------------------------
(* C1: in rename() no filesystem rename happens before check() has        *)
(* returned without error for the whole plan; when check() finds a        *)
(* conflict the run ends with exit status 2 and no rename has been done.  *)
C1_CheckBeforeRename ==
    /\ \A i \in Renamed : \E j \in 1..(i - 1) : log[j] = "check_ok"
    /\ CheckFailed => /\ pc = "exit"
                      /\ status = 2
                      /\ Renamed = {}
                      /\ folder = folder0

C1_Witness ==
    /\ pc = "exit" /\ status = 2 /\ CheckFailed
    /\ ~config.dry_run /\ Len(renames) >= 2

(* C2: a plan that passes check(), executed with no other process         *)
(* touching the folder, is carried out without an error and loses         *)
(* nothing: the number of entries stays, every source is found under its  *)
(* target name, every other entry is as it was.                           *)
C2_ExecuteLosesNothing ==
    (alien = 0 /\ Checked /\ ~CheckFailed) =>
        /\ error = NoError
        /\ Cardinality(folder) = Cardinality(folder0)
        /\ {e.data : e \in folder} = {e.data : e \in folder0}
        /\ (pc \in {"summary", "exit"} /\ ~config.dry_run) =>
              /\ status \in {-1, 0}
              /\ Cardinality(Renamed) = Len(renames)
              /\ \A i \in 1..Len(renames) : Done(i)
              /\ \A e \in folder0 : e.name \notin Sources => e \in folder

C2_Witness ==
    /\ pc = "exit" /\ status = 0 /\ alien = 0
    /\ ~config.dry_run /\ Len(renames) >= 2
    /\ Cardinality(folder0) > Len(renames)

(* C3: a plan with two entries of the same target name, none of whose     *)
(* targets exists, is rejected by check() with the duplicate-target error *)
(* that names the two sources and the target they share.                  *)
C3_DuplicateTargetRejected ==
    (/\ Checked
     /\ \E i \in 1..Len(renames) : TargetRepeats(i)
     /\ \A i \in 1..Len(renames) : ~TargetExists(i)) =>
        /\ CheckFailed
        /\ error.kind = "duplicate"
        /\ \E j \in 1..Len(renames) : \E i \in 1..(j - 1) :
              /\ renames[i].new = renames[j].new
              /\ error.target = renames[j].new
              /\ error.first = renames[i].old
              /\ error.second = renames[j].old
              /\ error.first # error.second

C3_Witness ==
    /\ pc = "exit" /\ error.kind = "duplicate"
    /\ \A i \in 1..Len(renames) : ~TargetExists(i)

(* C4 as claimed: a plan in which the target of some entry is the name of *)
(* an entry of the folder is rejected by check() with the                 *)
(* overwrite-existing error naming such a target.                         *)
C4_OverwriteAlwaysReported ==
    (/\ Checked
     /\ \E i \in 1..Len(renames) : \E e \in folder0 : e.name = renames[i].new) =>
        /\ error.kind = "overwrite"
        /\ \E i \in 1..Len(renames) : TargetExists(i) /\ error.target = renames[i].new

(* C4 as amended: such a plan is always rejected by check(), with exit    *)
(* status 2 and nothing renamed; the error is the overwrite-existing      *)
(* error naming that target when that entry is the first entry in plan    *)
(* order with a conflict, and otherwise the error of the first entry with *)
(* a conflict (a duplicate-target error when that entry repeats an        *)
(* earlier target).                                                       *)
C4_OverwriteRejected ==
    (/\ Checked
     /\ \E i \in 1..Len(renames) : TargetExists(i)) =>
        /\ CheckFailed /\ status = 2 /\ Renamed = {}
        /\ error.kind \in {"overwrite", "duplicate"}
        /\ TargetExists(FirstConflict) => error = OverwriteError(renames[FirstConflict].new)
        /\ ~TargetExists(FirstConflict) => error.kind = "duplicate"

C4_Witness ==
    /\ pc = "exit" /\ error.kind = "overwrite"
    /\ \E e \in folder0 : e.name = error.target
    /\ Len(renames) >= 2

(* C5 as claimed: when the plan has several conflicts the check reports   *)
(* every one of them, before anything is changed.                         *)
C5_AllConflictsReported ==
    CheckFailed =>
        /\ Renamed = {} /\ folder = folder0
        /\ \A i \in Conflicts : error = ConflictError(i)

(* C5 as amended: when the plan has several conflicts the check reports   *)
(* one of them only, the conflict of the first entry in plan order that   *)
(* has one, and the run ends before anything is changed.                  *)
C5_FirstConflictReported ==
    (Checked /\ Conflicts # {}) =>
        /\ CheckFailed /\ pc = "exit" /\ status = 2
        /\ Renamed = {} /\ folder = folder0
        /\ error = ConflictError(FirstConflict)

C5_Witness ==
    /\ CheckFailed /\ Cardinality(Conflicts) >= 2
    /\ \E i \in Conflicts : TargetExists(i)
    /\ \E i \in Conflicts : TargetRepeats(i) /\ ~TargetExists(i)

(* C6: execute() tests before each rename that the target does not exist; *)
(* when another process has created the target after check(), execute()   *)
(* raises an error naming the target, renames neither that entry nor a    *)
(* later one and leaves the earlier entries renamed.                      *)
C6_Aborted ==
    error.kind = "exists" =>
        /\ pc = "exit" /\ status = 1
        /\ idx \in 1..Len(renames)
        /\ error.target = renames[idx].new
        /\ [name |-> error.target, data |-> <<"alien">>] \in folder
        /\ Cardinality(Renamed) = idx - 1
        /\ \A i \in 1..(idx - 1) : Done(i)
        /\ \A i \in idx..Len(renames) : Untouched(i)

C9_DryRunChangesNothing ==
    config.dry_run =>
        /\ Renamed = {}
        /\ \A e \in folder0 : e \in folder
        /\ alien = 0 => folder = folder0
        /\ pc = "exit" =>
              /\ Checked
              /\ renames = Calculate(List(folder0, config.show_all),
                                      config.search_regex, config.replace_template,
                                      config.preserve_suffix, config.ignore_case)
              /\ status = IF Conflicts = {} THEN 0 ELSE 2

C9_Witness ==
    /\ config.dry_run /\ pc = "exit" /\ status = 0
    /\ Len(renames) >= 2 /\ alien = 0

---------------------------------------------------------------------------
(* What the claims about the audiobook splitter speak of *)

\* the run ended inside the loop over the chapters, at clip aindex + 1
EndedInLoop == apc = "exit" /\ outdir = "created" /\ aindex < chapters

(* C7: stop on first error: when the execution of entry k of a plan fails *)
(* (a rename of rerename, the extraction of a clip of the audiobook       *)
(* splitter) no entry after k is attempted, the entries before k stay     *)
(* done and the run ends with an exit status other than 0.                *)
C7_StopOnFirstError ==
    /\ error.kind = "exists" =>
          /\ pc = "exit" /\ status > 0
          /\ Cardinality(Renamed) = idx - 1
          /\ \A i \in 1..(idx - 1) : Done(i)
          /\ \A i \in idx..Len(renames) : Untouched(i)
    /\ EndedInLoop =>
          /\ astatus > 0
          /\ attempted \subseteq 1..(aindex + 1)
          /\ \A k \in 1..aindex : clips[k] = "complete"
          /\ \A k \in (aindex + 2)..chapters : clips[k] = "absent"

C7_Witness ==
    /\ EndedInLoop /\ astatus = 1
    /\ aindex = 1 /\ chapters >= 3 /\ attempted = {1, 2}

(* C8 as claimed: when the run is interrupted during an extraction (kill, *)
(* failure of the tool) no partly written file is left under the final    *)
(* name of a chapter file.                                                *)
C8_NoPartialFileLeft ==
    apc = "exit" => \A k \in 1..chapters : clips[k] # "partial"

(* C8 as amended: ffmpeg writes each clip under its final file name, with *)
(* no temporary name and no move into place: the clips extracted before   *)
(* the current one are complete and the clips after it are absent, but    *)
(* the file of the clip being extracted is partly written under its final *)
(* name while ffmpeg runs, and stays so when the run is interrupted       *)
(* during that extraction.                                                *)
C8_OnlyCurrentClipPartial ==
    apc # "off" =>
        /\ \A k \in 1..chapters :
              /\ k <= aindex => clips[k] = "complete"
              /\ k > aindex + 1 => clips[k] = "absent"
              /\ clips[k] = "partial" => k = aindex + 1 /\ apc \in {"ffmpeg", "exit"}
        /\ (apc = "exit" /\ astatus = 0) => \A k \in 1..chapters : clips[k] = "complete"

C8_Witness ==
    /\ apc = "exit" /\ astatus = 137
    /\ aindex >= 1 /\ aindex < Len(clips) /\ clips[aindex + 1] = "partial"

---------------------------------------------------------------------------
(* C10: clean_filename is idempotent: cleaning a cleaned name gives the   *)
(* same name again, also for a name that begins or ends with a character  *)
(* that is replaced by a space.                                           *)
C10_CleanIdempotent ==
    Len(cleaned) >= 3 => cleaned[3] = cleaned[2]


(* C11 as claimed: clean_filename turns every ':' of its input into ' - ' *)
(* (the hyphen stays), and returns a string with no whitespace at either  *)
(* end and no two whitespace characters in a row.                         *)
C11_ColonToHyphenTrimmed ==
    Len(cleaned) >= 2 =>
        LET in == cleaned[1]
            out == cleaned[2]
        IN /\ Cardinality({i \in 1..Len(out) : out[i] = "-"})
                = Cardinality({i \in 1..Len(in) : in[i] = ":"})
           /\ out # <<>> => ~IsSpace(out[1]) /\ ~IsSpace(out[Len(out)])
           /\ \A i \in 1..(Len(out) - 1) : ~(IsSpace(out[i]) /\ IsSpace(out[i + 1]))

---------------------------------------------------------------------------
(* C12: for every chapter count n >= 1, _calculate_padding(n) returns a   *)
(* width p with p >= 2 and 10^p > n (33 gives 2, 1000 gives 4), so every  *)
(* ordinal 1..n fits in p digits.                                         *)
C12_PaddingFits ==
    padding # 0 =>
        /\ padding >= 2
        /\ Pow10(padding) > padcount
        /\ padcount = 33 => padding = 2
        /\ padcount = 1000 => padding = 4

C12_Witness == padcount = 1000 /\ padding = 4


---------------------------------------------------------------------------
(* What the claims about the chapter file names speak of *)

\* the characters of s that are not whitespace
NoSpaces(s) == SelectSeq(s, LAMBDA c : ~IsSpace(c))

\* s holds nothing but digits and whitespace
DigitsOnly(s) ==
    \A i \in 1..Len(s) : IsSpace(s[i]) \/ \E d \in 1..10 : s[i] = DigitChars[d]

(* C13: the names filenames() returns are pairwise distinct and strictly  *)
(* increasing in string order, in the order of the chapters, whatever the *)
(* titles are.                                                            *)
C13_NamesIncrease ==
    \A i, j \in 1..Len(filenames) : i < j => StrLess(filenames[i], filenames[j])

C13_Witness ==
    /\ fpc = "returned"
    /\ Len(filenames) >= 10
    /\ titles[9] = titles[10]
    /\ titles[2] = <<>>

(* C14 as claimed: a chapter whose title is empty or only digits after    *)
(* stripping gets the name '<ordinal>. Chapter <ordinal>.mp3'.            *)
C14_SynthesizedTitle ==
    \A k \in 1..Len(filenames) :
        DigitsOnly(titles[k]) =>
            filenames[k] = ZeroFill(k, padding) \o <<".", " ", "C", "h", "a", "p", "t", "e", "r", " ">>
                           \o Str(k) \o <<".", "m", "p", "3">>

(* C14 as the code has it: a title that is empty or only digits is used   *)
(* as it is; apart from whitespace the name is '<ordinal>.<title>.mp3',   *)
(* and title '007' at index 6 with padding 2 gives '07. 007.mp3'.         *)
C14_TitleUsedAsGiven ==
    \A k \in 1..Len(filenames) :
        DigitsOnly(titles[k]) =>
            /\ NoSpaces(filenames[k])
                 = ZeroFill(k, padding) \o <<".">> \o NoSpaces(titles[k])
                   \o <<".", "m", "p", "3">>
            /\ (k = 7 /\ padding = 2 /\ titles[k] = <<"0", "0", "7">>)
                 => filenames[k] = <<"0", "7", ".", " ", "0", "0", "7", ".", "m", "p", "3">>

C14_Witness ==
    /\ Len(filenames) >= 7
    /\ titles[7] = <<"0", "0", "7">>
    /\ titles[2] = <<>>
    /\ filenames[2] = <<"0", "2", ".", " ", ".", "m", "p", "3">>

(* C15: filenames() gives one name per chapter, in the order of the       *)
(* chapters: the list returned is as long as the chapter list, and its    *)
(* k-th name starts with the ordinal k and carries the word characters of *)
(* the k-th title.                                                        *)
C15_OneNamePerChapter ==
    /\ fpc = "returned" => Len(filenames) = Len(titles)
    /\ \A k \in 1..Len(filenames) :
        LET name == filenames[k]
            words == SelectSeq(name, IsWord)
        IN /\ Len(name) > padding
           /\ ToInt(SubSeq(name, 1, padding)) = k
           /\ name[padding + 1] = "."
           /\ words = SubSeq(name, 1, padding) \o SelectSeq(titles[k], IsWord)
                      \o <<"m", "p", "3">>

C15_Witness ==
    /\ fpc = "returned"
    /\ Len(filenames) = MaxBookChapters
    /\ titles[1] # titles[2]


---------------------------------------------------------------------------
(* What the claims about the plan of rerename speak of *)

\* calculate() has returned
Calculated == pc \notin {"off", "list", "calculate"}

\* what calculate() searches in a name
Haystack(name) == IF config.preserve_suffix THEN Stem(name) ELSE name

\* the search expression matches the name
Matches(name) ==
    Search(config.search_regex, Haystack(name), config.ignore_case) # NoMatch

\* the names the plan renames, in plan order
PlanOlds == [i \in 1..Len(renames) |-> renames[i].old]

\* s ends with t
EndsWith(s, t) ==
    /\ Len(t) <= Len(s)
    /\ SubSeq(s, Len(s) - Len(t) + 1, Len(s)) = t

(* C16: no entry of the plan calculate() returns has old = new: an entry  *)
(* whose computed new name is its current name is left out.               *)
C16_NoNoOpInPlan ==
    Calculated => \A i \in 1..Len(renames) : renames[i].old # renames[i].new

\* the empty search matches every name and the empty template puts the
\* empty match back: every new name is the current one
C16_Witness ==
    /\ Calculated
    /\ config.search_regex = <<>>
    /\ config.replace_template = <<>>
    /\ Len(paths) >= 2
    /\ renames = <<>>

(* C17: the plan has an entry only for listed names the search matches,   *)
(* in listing order; an entry of the folder with no match is not in the   *)
(* plan, stays in the folder as it was, and is no cause of an error.      *)
C17_UnmatchedExcluded ==
    Calculated =>
        /\ \A i \in 1..Len(renames) : Matches(renames[i].old)
        /\ PlanOlds = SelectSeq(paths, LAMBDA n : n \in Sources)
        /\ \A p \in folder0 : ~Matches(p.name) => p \in folder
        /\ (\A i \in 1..Len(paths) : ~Matches(paths[i])) =>
               renames = <<>> /\ error = NoError /\ status \in {-1, 0}

C17_Witness ==
    /\ pc = "exit"
    /\ status = 0
    /\ Len(renames) = 2
    /\ Renamed # {}
    /\ \E i \in 1..Len(paths) :
           /\ ~Matches(paths[i])
           /\ \E j, k \in 1..Len(paths) :
                  j < i /\ i < k /\ Matches(paths[j]) /\ Matches(paths[k])

(* C18: with preserve_suffix the extension takes no part: every new name  *)
(* of the plan ends with the suffix of its old name, and the span matched *)
(* lies inside the stem of the old name.                                  *)
C18_SuffixPreserved ==
    (Calculated /\ config.preserve_suffix) =>
        \A i \in 1..Len(renames) :
            /\ EndsWith(renames[i].new, Suffix(renames[i].old))
            /\ 0 <= renames[i].match_start
            /\ renames[i].match_start <= renames[i].match_end
            /\ renames[i].match_end <= Len(Stem(renames[i].old))
            /\ Slice(renames[i].new, 0, renames[i].match_start)
                 = Slice(renames[i].old, 0, renames[i].match_start)

\* an entry with a suffix that the search would match is in the plan
C18_Witness ==
    /\ Calculated
    /\ config.preserve_suffix
    /\ \E i \in 1..Len(renames) :
           /\ Suffix(renames[i].old) # <<>>
           /\ Search(config.search_regex, Suffix(renames[i].old),
                     config.ignore_case) # NoMatch


---------------------------------------------------------------------------
(* What the claim about sqlite3-vacuum speaks of *)

\* the complete backup copies of database d that its two files hold
CompleteHeld(files, d) ==
    {f \in {files[d].old, files[d].older} : f.state = "complete"}

(* C19 as claimed: over any sequence of runs of backup(), failed ones     *)
(* included, a complete backup copy held as '.old' or '.older' goes away  *)
(* (overwritten or deleted) only in a step after which '.old' is a newer  *)
(* complete copy.                                                         *)
C19_BackupNeverLost ==
    [][\A d \in DOMAIN bfiles :
         \A c \in CompleteHeld(bfiles, d) :
            c \notin CompleteHeld(bfiles', d) =>
                /\ bfiles'[d].old.state = "complete"
                /\ bfiles'[d].old.run > c.run]_vars


---------------------------------------------------------------------------
(* C20 as claimed: after into_subfolders(root) and then                   *)
(* from_subfolders(root) have both returned, root has the entries it had  *)
(* before, at the same places, whatever root held at the start.           *)
C20_RoundTripRestores == mpc = "done" => mroot = mroot0


---------------------------------------------------------------------------
(* C21 as claimed: when main() of tv-subtitles returns 0, every episode    *)
(* has a subtitle file at '<episode base name>.srt', and every subtitle    *)
(* that was copied is an English one.                                      *)
C21_EnglishSubtitlePerEpisode ==
    (tpc = "exit" /\ tstatus = 0) =>
        \A k \in 1..tcount :
            /\ tsrt[k].kind = "file"
            /\ \A subtitle \in tcopied[k] : subtitle.lang = "english"


---------------------------------------------------------------------------
(* C29: tv-subtitles never overwrites a subtitle that is in place: for an  *)
(* episode whose '<episode base name>.srt' is a file when main() comes to  *)
(* it, copy_subtitle() is not called and the file stays as it was.         *)
C29_SubtitleInPlaceKept ==
    \A k \in 1..tcount :
        tsrt0[k].kind = "file" => tcopied[k] = {} /\ tsrt[k] = tsrt0[k]

\* a run that copied a subtitle for one episode and passed over another
\* that had its subtitle, though Subs held a file for it
C29_Witness ==
    /\ tpc = "exit"
    /\ tstatus = 0
    /\ \E k, j \in 1..tcount :
          /\ tsrt0[k].kind = "file"
          /\ find_subtitle(tcands[k]) # {}
          /\ tcopied[j] # {}


---------------------------------------------------------------------------
(* What the claim about rust-clean speaks of *)

\* the root and the folders under it when the program started
AllDirs0 == rdirs0 \cup {<<>>}

\* the folders that held a folder 'target' and a file 'Cargo.toml'
Projects0 == {d \in AllDirs0 : NeedsCleaning(rdirs0, d)}

\* the folder is ignored, or lies below an ignored folder (the root is one
\* of the folders it lies below)
Pruned(d) == \E i \in 0..Len(d) : DirName(SubSeq(d, 1, i)) \in ignored_folders

---------------------------------------------------------------------------
(* C23 as claimed: change_folder() restores the working directory when    *)
(* its block exits, also when the block raises: once main() is past the   *)
(* with statement, by its end or by an exception, the working directory   *)
(* is the one from before.                                                *)
C23_WorkingDirectoryRestored ==
    (apc = "exit" /\ astatus \in {0, 1, 100}) => cwd = "start"

---------------------------------------------------------------------------
(* C25: when the output folder exists already, the run ends with exit     *)
(* status 1 before any extraction: ffmpeg is started for no clip, no clip *)
(* file is written, the folder stays as it was and the working directory  *)
(* is not changed.                                                        *)
C25_ExistingFolderRefused ==
    outdir = "present" =>
        /\ apc \in {"create_folder", "exit"}
        /\ apc = "exit" => astatus \in {1, 137}
        /\ attempted = {}
        /\ progress = <<>>
        /\ cwd = "start"
        /\ \A k \in 1..chapters : clips[k] = "absent"

C25_Witness == outdir = "present" /\ apc = "exit" /\ astatus = 1 /\ chapters >= 2

---------------------------------------------------------------------------
(* C27: the progress line of entry k is printed only after the extraction *)
(* of entry k has succeeded, once per completed entry, and the lines come *)
(* in plan order 1, 2, ..., N.                                            *)
C27_ProgressAfterSuccess ==
    apc # "off" =>
        /\ progress = [k \in 1..Len(progress) |-> k]
        /\ Len(progress) = aindex
        /\ \A k \in 1..Len(progress) : clips[progress[k]] = "complete"
        /\ (apc = "exit" /\ astatus = 0) => Len(progress) = chapters

\* a run that failed in its third clip after two progress lines
C27_Witness ==
    /\ apc = "exit"
    /\ astatus = 1
    /\ progress = <<1, 2>>
    /\ attempted = {1, 2, 3}


---------------------------------------------------------------------------
(* C24 as claimed: hevc_convert() replaces a video without partial        *)
(* states: the content at the video's path changes only after ffmpeg has  *)
(* succeeded for it, and at every moment, also when the run is            *)
(* interrupted, it is the complete old or the complete new content.       *)
C24_ReplacedWithoutPartialState ==
    \A k \in 1..hvideos :
        /\ hvideo[k] \in {"old", "new"}
        /\ hvideo[k] # "old" => k \in hencoded


---------------------------------------------------------------------------
\* the target of plan entry i is the source of another entry of the plan
TargetIsSource(i) == \E j \in 1..Len(renames) : j # i /\ renames[j].old = renames[i].new

Chained == {i \in 1..Len(renames) : TargetIsSource(i)}

---------------------------------------------------------------------------
(* C28 as claimed: for a file of positive duration without chapter        *)
(* metadata chapterise() does not raise, and returns a list that is not   *)
(* empty, of parts titled 'Part 1' to 'Part n', the first starting at 0   *)
(* and each starting where the one before ends; also for a duration of    *)
(* less than 10 minutes.                                                  *)
C28_PartsForEveryDuration ==
    /\ (ppc # "off" /\ pmeta = <<>>) => ppc # "raised"
    /\ (ppc = "done" /\ pmeta = <<>>) =>
          /\ pparts # <<>>
          /\ pparts[1].start[1] = 0
          /\ \A k \in 1..Len(pparts) : pparts[k].title = PartTitle(k)
          /\ \A k \in 2..Len(pparts) : RatEq(pparts[k].start, pparts[k - 1].end)

=============================================================================
